---- MODULE Spec2Model ----
(***************************************************************************)
(* INSA's Grade Rain Of Death: the two Game engines (src/js/Game.js), the  *)
(* note registry and Note entity (src/js/NoteType.js), the session storage *)
(* helpers (src/js/cookies.js) and the menu handlers (src/js/menu.js,      *)
(* src/js/main.js).                                                        *)
(*                                                                         *)
(* Units.  Positions and speeds are in tenths of a pixel (Tenth), lives in *)
(* quarters of a life (Quarter), spawn weights in hundredths, time in      *)
(* seconds.  A Math.random() draw is a number of tenths, 0..9.             *)
(***************************************************************************)
EXTENDS Integers, Sequences, FiniteSets, TLC

VARIABLES games, canvas, storage, timers, numberOfPlayers,
          preview, isGaming, isPlaying, now, hist

vars == <<games, canvas, storage, timers, numberOfPlayers,
          preview, isGaming, isPlaying, now, hist>>

----------------------------------------------------------------------------
(* Units and program constants *)

\* dy = 2 + difficultyLevel / 10 + ...: the finest step of a position
Tenth == 10
\* lifeDelta 0.25: the finest step of lives
Quarter == 4
\* this.lives = 3
InitialLives == 3
\* const step = 10 (pixels per frame of paddle movement)
PaddleStep == 10
\* setInterval(..., 5000), in seconds
DifficultyPeriod == 5
\* setTimeout(..., 2000), in seconds
NavigationDelay == 2
\* the sentinel of get_score_session
NoScoreSentinel == -42
\* const HIGHSCORE_LIMIT = 10
HIGHSCORE_LIMIT == 10
\* Math.random() < 0.03 + difficultyLevel / 300, in three-hundredths
SpawnBase == 9
SpawnScale == 300

(* Bounds of the model.  The canvas and sprite sizes are options of the    *)
(* Game constructor (opts.canvas, opts.noteWidth, ...); the model runs the *)
(* engines on a small canvas, in pixels.  Shipped: canvas 1000 or 900 wide *)
(* and 600 or 800 high, notes 80 x 80, paddle 150 x 250.                   *)
OnePlayerWidth == 40
TwoPlayerWidth == 30
PreviewHeight == 6
GameHeight == 8
NoteWidth == 10
NoteHeight == 1
CaracterWidth == 15
CaracterHeight == 3
\* live notes of an engine, score and lives a run may reach, seconds modelled
MaxNotes == 2
MaxScore == 50
MaxLives == 13
MaxNow == 5
\* live notes and score of an engine where the clock runs
MaxNotesTimed == 1
MaxScoreTimed == 50
\* runs started in one session of the page
MaxRuns == 2
\* results views counted per run (the count saturates)
MaxViews == 3
\* timers active at once where restart() is called at will, without and
\* with the clock
MaxTimers == 3
MaxTimersTimed == 2
\* lives below zero and game-over cues where checkGameOver() is called at will
MaxDebt == 4
MaxCues == 2

Engines == {1, 2}
\* let player1 = ["Player 1", ...]; let player2 = ["Player 2", ...]
UserOf(e) == IF e = 1 THEN "Player 1" ELSE "Player 2"

----------------------------------------------------------------------------
(* JavaScript values that cross sessionStorage: a number, the string that  *)
(* String(n) gives, or null.                                               *)

Num(n) == [t |-> "number", v |-> n]
StrOf(n) == [t |-> "string", v |-> n]
Null == [t |-> "null", v |-> 0]
\* String(value) as sessionStorage.setItem applies it
ToStr(x) == IF x.t = "number" THEN StrOf(x.v) ELSE x
\* ToNumber as the relational operators apply it (null is 0)
ToNumber(x) == x.v
StrictEquals(a, b) == a.t = b.t /\ a.v = b.v
\* the characters of String(n), a digit by its value and the minus sign
\* below every digit, as their code units are
RECURSIVE Digits(_)
Digits(n) ==
    IF n < 0 THEN <<-1>> \o Digits(-n)
    ELSE IF n < 10 THEN <<n>>
    ELSE Append(Digits(n \div 10), n % 10)

RECURSIVE LexLess(_, _)
LexLess(a, b) ==
    IF b = <<>> THEN FALSE
    ELSE IF a = <<>> THEN TRUE
    ELSE IF Head(a) # Head(b) THEN Head(a) < Head(b)
    ELSE LexLess(Tail(a), Tail(b))

\* a < b: two strings are compared by their code units, anything else as
\* numbers
JsLess(a, b) ==
    IF a.t = "string" /\ b.t = "string" THEN LexLess(Digits(a.v), Digits(b.v))
    ELSE ToNumber(a) < ToNumber(b)

NoUser == "null"

----------------------------------------------------------------------------
(* NoteType registry *)

NoteTypeA == [name |-> "A", weight |-> 5, score |-> 100, lifeDelta |-> 1]
NoteTypeB == [name |-> "B", weight |-> 10, score |-> 50, lifeDelta |-> 0]
NoteTypeC == [name |-> "C", weight |-> 15, score |-> 30, lifeDelta |-> 0]
NoteTypeD == [name |-> "D", weight |-> 15, score |-> 20, lifeDelta |-> 0]
NoteTypeE == [name |-> "E", weight |-> 15, score |-> 10, lifeDelta |-> 0]
NoteTypeFx == [name |-> "Fx", weight |-> 25, score |-> 0, lifeDelta |-> -2]
NoteTypeF == [name |-> "F", weight |-> 15, score |-> 0, lifeDelta |-> -4]

buildNoteTypes == <<NoteTypeA, NoteTypeB, NoteTypeC, NoteTypeD, NoteTypeE,
                    NoteTypeFx, NoteTypeF>>

RECURSIVE SumWeights(_, _)
SumWeights(types, n) ==
    IF n = 0 THEN 0 ELSE SumWeights(types, n - 1) + types[n].weight

\* this.totalWeight = this.noteTypes.reduce((acc, t) => acc + t.weight, 0)
totalWeight == SumWeights(buildNoteTypes, Len(buildNoteTypes))

RECURSIVE PickFrom(_, _, _, _)
PickFrom(types, r, i, sum) ==
    IF i > Len(types) THEN types[Len(types)]
    ELSE IF r < sum + types[i].weight THEN types[i]
    ELSE PickFrom(types, r, i + 1, sum + types[i].weight)

\* r is Math.random() * totalWeight, in hundredths
getRandomNoteType(r) == PickFrom(buildNoteTypes, r, 1, 0)

(* getRandomNoteType() step by step, over any registry: a call is a record *)
(* of the registry (this.noteTypes), the draw r, the index of the entry    *)
(* the for loop is at, the running sum, where the call is (in the loop,    *)
(* returned, or its note drawn by the frame), the value returned and       *)
(* whether the frame that draws the note raised.                           *)

\* this.noteTypes[this.noteTypes.length - 1] of an empty registry
Undefined == [name |-> 0, weight |-> 0]

NoPick == [types |-> <<>>, r |-> 0, i |-> 1, sum |-> 0, pc |-> "idle",
           result |-> Undefined, raised |-> FALSE]

\* the call begins
PickCall(types, r) ==
    [types |-> types, r |-> r, i |-> 1, sum |-> 0, pc |-> "loop",
     result |-> Undefined, raised |-> FALSE]

\* one iteration with the test r <= sum in place of r < sum
PickStepInclusive(p) ==
    IF p.i > Len(p.types)
    THEN [p EXCEPT !.pc = "returned",
                   !.result = IF p.types = <<>> THEN Undefined
                              ELSE p.types[Len(p.types)]]
    ELSE IF p.r <= p.sum + p.types[p.i].weight
    THEN [p EXCEPT !.sum = p.sum + p.types[p.i].weight,
                   !.pc = "returned",
                   !.result = p.types[p.i]]
    ELSE [p EXCEPT !.sum = p.sum + p.types[p.i].weight, !.i = p.i + 1]

\* one iteration of the for loop, or the fallback return once it is over
PickStep(p) ==
    IF p.i > Len(p.types)
    THEN [p EXCEPT !.pc = "returned",
                   !.result = IF p.types = <<>> THEN Undefined
                              ELSE p.types[Len(p.types)]]
    ELSE IF p.r < p.sum + p.types[p.i].weight
    THEN [p EXCEPT !.sum = p.sum + p.types[p.i].weight,
                   !.pc = "returned",
                   !.result = p.types[p.i]]
    ELSE [p EXCEPT !.sum = p.sum + p.types[p.i].weight, !.i = p.i + 1]

\* the frame that spawned the note draws it: ctx.drawImage(this.type.image,
\* ...) raises a TypeError when the type is undefined
NoteDraw(p) == [p EXCEPT !.pc = "drawn", !.raised = (p.result = Undefined)]

----------------------------------------------------------------------------
(* Note entity *)

\* a Note whose random share of the speed is doubled
NoteDoubleVariance(type, canvasWidth, noteW, noteH, difficultyLevel, rx, rdy) ==
    [type |-> type,
     w |-> noteW * Tenth,
     h |-> noteH * Tenth,
     x |-> rx * (canvasWidth - noteW),
     y |-> -(noteH * Tenth),
     dy |-> 2 * Tenth + difficultyLevel + 2 * rdy * difficultyLevel]

\* new Note(type, canvasWidth, noteW, noteH, difficultyLevel); rx and rdy are
\* the two Math.random() draws, in tenths
Note(type, canvasWidth, noteW, noteH, difficultyLevel, rx, rdy) ==
    [type |-> type,
     w |-> noteW * Tenth,
     h |-> noteH * Tenth,
     x |-> rx * (canvasWidth - noteW),
     y |-> -(noteH * Tenth),
     dy |-> 2 * Tenth + difficultyLevel + rdy * difficultyLevel]

NoteUpdate(n) == [n EXCEPT !.y = n.y + n.dy]

isOut(n, canvasHeight) == n.y > canvasHeight * Tenth

collidesWithRect(n, rx, ry, rw, rh) ==
    /\ n.x < rx + rw
    /\ n.x + n.w > rx
    /\ n.y < ry + rh
    /\ n.y + n.h > ry

----------------------------------------------------------------------------
(* The world the handlers act on: one record holding the value of every    *)
(* variable, so that a handler is an operator from world to world and a    *)
(* call inside a handler is an application.                                *)

World == [games |-> games, canvas |-> canvas, storage |-> storage,
          timers |-> timers,
          numberOfPlayers |-> numberOfPlayers, preview |-> preview,
          isGaming |-> isGaming, isPlaying |-> isPlaying, now |-> now,
          hist |-> hist]

Commit(w) ==
    /\ games' = w.games
    /\ canvas' = w.canvas
    /\ storage' = w.storage
    /\ timers' = w.timers
    /\ numberOfPlayers' = w.numberOfPlayers
    /\ preview' = w.preview
    /\ isGaming' = w.isGaming
    /\ isPlaying' = w.isPlaying
    /\ now' = w.now
    /\ hist' = w.hist

\* this.difficultyIntervalId = null (timer identifiers are positive)
NullId == 0
\* sessionStorage.getItem(key) === null
NoItem == "<absent>"

----------------------------------------------------------------------------
(* cookies.js: session storage *)

\* sessionStorage before the page wrote anything
EmptyStorage ==
    [game_state_boolean |-> NoItem, game_state_user |-> NoItem,
     game_state_score |-> Null,
     score |-> [u \in {"Player 1", "Player 2"} |-> Null],
     names |-> [u \in {"Player 1", "Player 2"} |-> NoItem],
     highscores |-> <<>>]

get_score_session(st, user) ==
    IF st.score[user] = Null THEN Num(NoScoreSentinel) ELSE st.score[user]

set_score_session(st, user, score) ==
    [st EXCEPT !.score[user] = ToStr(score)]

\* prompt(...) answered with its default value; at most 12 characters kept
change_name(st, user) ==
    [st EXCEPT !.names[user] = IF st.names[user] = NoItem THEN user
                                ELSE st.names[user]]

get_name_storage(st, user) ==
    IF st.names[user] = NoItem THEN change_name(st, user) ELSE st

get_name(st, user) == get_name_storage(st, user).names[user]

RECURSIVE InsertDesc(_, _)
\* one step of the stable sort by b.score - a.score: p goes after every
\* entry whose score is at least its own
InsertDesc(sorted, p) ==
    IF sorted = <<>> THEN <<p>>
    ELSE IF ToNumber(Head(sorted).score) >= ToNumber(p.score)
         THEN <<Head(sorted)>> \o InsertDesc(Tail(sorted), p)
         ELSE <<p>> \o sorted

RECURSIVE SortDesc(_)
SortDesc(list) ==
    IF list = <<>> THEN <<>>
    ELSE InsertDesc(SortDesc(SubSeq(list, 1, Len(list) - 1)), list[Len(list)])

\* actual.slice(HIGHSCORE_LIMIT) is computed and dropped: the list is saved whole
update_highscores(st, user, score) ==
    LET named == get_name_storage(st, user)
        player == [name |-> named.names[user], score |-> score]
        actual == SortDesc(Append(named.highscores, player))
    IN  [named EXCEPT !.highscores = actual]

\* the value gameOver() receives: undefined when the flag is neither string
increment_game_state_defined(st) ==
    st.game_state_boolean \in {"false", "true"}

increment_game_state_result(st) ==
    IF st.game_state_boolean = "false"
    THEN [isMyfriendLose |-> FALSE, myUserFriend |-> NoUser,
          myUserFriendScore |-> Null]
    ELSE [isMyfriendLose |-> TRUE, myUserFriend |-> st.game_state_user,
          myUserFriendScore |-> st.game_state_score]

increment_game_state(st, user, score) ==
    IF st.game_state_boolean = "false"
    THEN [st EXCEPT !.game_state_boolean = "true",
                    !.game_state_user = user,
                    !.game_state_score = ToStr(Num(score))]
    ELSE [st EXCEPT !.game_state_boolean = "true"]

\* release_game_state() that leaves the flag as it is
release_game_stateKeepsFlag(st) ==
    [st EXCEPT !.game_state_user = "",
               !.game_state_score = StrOf(0)]

release_game_state(st) ==
    [st EXCEPT !.game_state_boolean = "false",
               !.game_state_user = "",
               !.game_state_score = StrOf(0)]

\* the alert twoPlayersWinnerAlert raises, "none" when no branch is taken
twoPlayersWinnerAlert(thisUser, thisUserScore, userFriend, userFriendScore) ==
    IF JsLess(userFriendScore, thisUserScore) THEN thisUser
    ELSE IF JsLess(thisUserScore, userFriendScore) THEN userFriend
    ELSE IF StrictEquals(thisUserScore, userFriendScore) THEN "equality"
    ELSE "none"

----------------------------------------------------------------------------
(* Game.js: the engine.  An engine is a record; deathAnimStart is <<>> for *)
(* null and <<t>> for a time; rafPending counts the frame callbacks the    *)
(* engine has pending with requestAnimationFrame.  The last three fields   *)
(* are history: the game-over cues played in the run, the catch effects    *)
(* applied while isGameOver, lives as last passed to checkGameOver, and    *)
(* the times gameOver() got past its dead guard in the run.                *)
(* Left out: sprites, audio volume, the blink and damage-feedback timers,  *)
(* which no handler reads back into the simulation.                        *)

Game(user, np, canvasWidth) ==
    [numberOfPlayers |-> np,
     user |-> user,
     score |-> 0,
     lives |-> InitialLives * Quarter,
     gameStarted |-> FALSE,
     previewed |-> FALSE,
     isGameOver |-> FALSE,
     gameOverAlreadyHandled |-> FALSE,
     dead |-> FALSE,
     rightPressed |-> FALSE,
     leftPressed |-> FALSE,
     directionToken |-> TRUE,
     difficultyLevel |-> 1,
     difficultyIntervalId |-> NullId,
     deathAnimStart |-> <<>>,
     notes |-> <<>>,
     caracterX |-> ((canvasWidth - CaracterWidth) * Tenth) \div 2,
     inputAttached |-> FALSE,
     rafPending |-> 0,
     gameOverCues |-> 0,
     caughtAfterOver |-> 0,
     checkedLives |-> InitialLives * Quarter,
     transitions |-> 0]

attachInput(g) == [g EXCEPT !.inputAttached = TRUE]

\* the timer setInterval(..., 5000) registers in startDifficultyRamp
IntervalTimer(e, id) ==
    [id |-> id, kind |-> "interval", owner |-> e, left |-> DifficultyPeriod,
     update |-> FALSE, friend |-> NoUser, friendScore |-> Null]

\* the timer setTimeout(..., 2000) registers in gameOver, with the values
\* its callback closes over
TimeoutTimer(e, id, update, friend, friendScore) ==
    [id |-> id, kind |-> "timeout", owner |-> e, left |-> NavigationDelay,
     update |-> update, friend |-> friend, friendScore |-> friendScore]

\* the identifier setInterval / setTimeout returns: positive and not the
\* identifier of an active timer (the least such, identifiers being opaque)
FreshId(tm) ==
    CHOOSE i \in 1..(Cardinality(tm) + 1) :
        /\ \A t \in tm : t.id # i
        /\ \A j \in 1..(i - 1) : \E t \in tm : t.id = j

\* setInterval / setTimeout: the timer becomes active
AddTimer(tm, t) == tm \cup {t}

\* clearInterval / a timeout that has run
RemoveTimer(tm, id) == {t \in tm : t.id # id}

\* startDifficultyRamp() without its guard
startDifficultyRampUnguarded(w, e) ==
    [w EXCEPT !.timers = AddTimer(w.timers, IntervalTimer(e, FreshId(w.timers))),
              !.games[e].difficultyIntervalId = FreshId(w.timers)]

startDifficultyRamp(w, e) ==
    IF w.games[e].difficultyIntervalId # NullId THEN w
    ELSE [w EXCEPT !.timers = AddTimer(w.timers, IntervalTimer(e, FreshId(w.timers))),
                   !.games[e].difficultyIntervalId = FreshId(w.timers)]

\* clearInterval(this.difficultyIntervalId); this.difficultyIntervalId = null
stopDifficultyRamp(w, e) ==
    IF w.games[e].difficultyIntervalId = NullId THEN w
    ELSE [w EXCEPT !.timers = RemoveTimer(w.timers, w.games[e].difficultyIntervalId),
                   !.games[e].difficultyIntervalId = NullId]

\* an interval callback that also speeds up the live notes
DifficultyTickSpeedsNotes(g) ==
    [g EXCEPT !.difficultyLevel = g.difficultyLevel + 1,
              !.notes = [i \in DOMAIN g.notes |->
                            [g.notes[i] EXCEPT !.dy = @ + 1]]]

\* the body of the setInterval callback
DifficultyTick(g) == [g EXCEPT !.difficultyLevel = g.difficultyLevel + 1]

(* Gameplay helpers *)

addScore(g, delta) == [g EXCEPT !.score = g.score + delta]

addLives(g, delta) == [g EXCEPT !.lives = g.lives + delta]

\* the sfx map initialiseGame() gives the engine of a user: the background
\* music is an Audio for Player 1 and null for Player 2
SfxKeys == {"backgroundMusic", "goodA", "good", "bad", "gameOver"}

SfxOf(user) ==
    [key \in SfxKeys |->
        IF key = "backgroundMusic" /\ user # "Player 1" THEN "null"
        ELSE "Audio"]

\* this.sfx[key]
SfxLookup(user, key) ==
    IF key \in SfxKeys THEN SfxOf(user)[key] ELSE "undefined"

\* what the browser does with the element: it plays, the assignment of
\* currentTime raises, play() raises, or the promise of play() is rejected
Playbacks == {"plays", "seekRaises", "playRaises", "rejects"}

\* the body of playSfx(key) without its test of the asset
PlayOutcomeNoGuard(audio, key, playback) ==
    IF audio # "Audio"
    THEN [raised |-> TRUE, sought |-> FALSE, started |-> FALSE,
          unhandled |-> FALSE]
    ELSE [raised |-> FALSE, sought |-> key # "backgroundMusic",
          started |-> playback = "plays", unhandled |-> FALSE]

\* the body of playSfx(key): whether the call raises, whether it has set
\* currentTime and started the playback, and whether it leaves a rejected
\* promise with no handler
PlayOutcome(audio, key, playback) ==
    IF audio # "Audio"
    THEN [raised |-> FALSE, sought |-> FALSE, started |-> FALSE,
          unhandled |-> FALSE]
    ELSE IF key = "backgroundMusic"
    THEN [raised |-> FALSE, sought |-> FALSE,
          started |-> playback \in {"plays", "seekRaises"},
          unhandled |-> FALSE]
    ELSE IF playback = "seekRaises"
    THEN [raised |-> FALSE, sought |-> FALSE, started |-> FALSE,
          unhandled |-> FALSE]
    ELSE [raised |-> FALSE, sought |-> TRUE,
          started |-> playback = "plays",
          unhandled |-> playback = "rejects"]

\* playSfx(key): nothing but the count of game-over cues is kept
playSfx(g, key) ==
    IF key = "gameOver" THEN [g EXCEPT !.gameOverCues = g.gameOverCues + 1]
    ELSE g

\* checkGameOver() that leaves isGameOver alone
checkGameOverNoFlag(g, t) ==
    IF g.lives > 0 THEN [g EXCEPT !.checkedLives = g.lives]
    ELSE playSfx([g EXCEPT !.checkedLives = g.lives,
                           !.lives = 0,
                           !.deathAnimStart =
                               IF g.deathAnimStart = <<>> THEN <<t>>
                               ELSE g.deathAnimStart],
                 "gameOver")

\* checkGameOver() that leaves lives alone
checkGameOverNoClamp(g, t) ==
    IF g.lives > 0 THEN [g EXCEPT !.checkedLives = g.lives]
    ELSE playSfx([g EXCEPT !.checkedLives = g.lives,
                           !.isGameOver = TRUE,
                           !.deathAnimStart =
                               IF g.deathAnimStart = <<>> THEN <<t>>
                               ELSE g.deathAnimStart],
                 "gameOver")

checkGameOver(g, t) ==
    IF g.lives > 0 THEN [g EXCEPT !.checkedLives = g.lives]
    ELSE playSfx([g EXCEPT !.checkedLives = g.lives,
                           !.lives = 0,
                           !.isGameOver = TRUE,
                           !.deathAnimStart =
                               IF g.deathAnimStart = <<>> THEN <<t>>
                               ELSE g.deathAnimStart],
                 "gameOver")

\* onCatch strategies with lives capped at the initial three
onCatchCapped(g, type, t) ==
    IF type.name = "A"
    THEN playSfx([addScore(g, type.score) EXCEPT
                      !.lives = IF g.lives + type.lifeDelta > InitialLives * Quarter
                                THEN InitialLives * Quarter
                                ELSE g.lives + type.lifeDelta],
                 "goodA")
    ELSE IF type.name \in {"B", "C", "D", "E"}
    THEN playSfx(addScore(g, type.score), "good")
    ELSE checkGameOver(playSfx(addLives(g, type.lifeDelta), "bad"), t)

\* the onCatch strategy of each registry entry
onCatch(g, type, t) ==
    IF type.name = "A"
    THEN playSfx(addLives(addScore(g, type.score), type.lifeDelta), "goodA")
    ELSE IF type.name \in {"B", "C", "D", "E"}
    THEN playSfx(addScore(g, type.score), "good")
    ELSE checkGameOver(playSfx(addLives(g, type.lifeDelta), "bad"), t)

applyCollisionEffects(g, note, t) ==
    onCatch([g EXCEPT !.caughtAfterOver =
                 IF g.isGameOver THEN g.caughtAfterOver + 1
                 ELSE g.caughtAfterOver],
            note.type, t)

\* this.notes.splice(i, 1)
Splice(notes, i) == SubSeq(notes, 1, i - 1) \o SubSeq(notes, i + 1, Len(notes))

RECURSIVE UpdateNotesFromNoSkip(_, _, _, _, _)
\* the loop of updateNotes without its isGameOver test
UpdateNotesFromNoSkip(g, cv, paddleX, i, t) ==
    IF i < 1 THEN g
    ELSE LET n == NoteUpdate(g.notes[i])
             moved == [g EXCEPT !.notes[i] = n]
             paddleY == (cv.height - CaracterHeight) * Tenth
         IN  IF isOut(n, cv.height)
             THEN UpdateNotesFromNoSkip([moved EXCEPT !.notes = Splice(moved.notes, i)],
                                        cv, paddleX, i - 1, t)
             ELSE IF collidesWithRect(n, paddleX, paddleY,
                                      CaracterWidth * Tenth, CaracterHeight * Tenth)
             THEN LET caught == applyCollisionEffects(moved, n, t)
                  IN  UpdateNotesFromNoSkip(
                          [caught EXCEPT !.notes = Splice(caught.notes, i)],
                          cv, paddleX, i - 1, t)
             ELSE UpdateNotesFromNoSkip(moved, cv, paddleX, i - 1, t)

RECURSIVE UpdateNotesFromNoPrune(_, _, _, _, _)
\* the loop of updateNotes without its isOut test
UpdateNotesFromNoPrune(g, cv, paddleX, i, t) ==
    IF i < 1 THEN g
    ELSE LET n == NoteUpdate(g.notes[i])
             moved == [g EXCEPT !.notes[i] = n]
             paddleY == (cv.height - CaracterHeight) * Tenth
         IN  IF moved.isGameOver
             THEN UpdateNotesFromNoPrune(moved, cv, paddleX, i - 1, t)
             ELSE IF collidesWithRect(n, paddleX, paddleY,
                                      CaracterWidth * Tenth, CaracterHeight * Tenth)
             THEN LET caught == applyCollisionEffects(moved, n, t)
                  IN  UpdateNotesFromNoPrune(
                          [caught EXCEPT !.notes = Splice(caught.notes, i)],
                          cv, paddleX, i - 1, t)
             ELSE UpdateNotesFromNoPrune(moved, cv, paddleX, i - 1, t)

RECURSIVE UpdateNotesFromSkipAfterSplice(_, _, _, _, _)
\* the loop of updateNotes stepping over the entry before a removed one
UpdateNotesFromSkipAfterSplice(g, cv, paddleX, i, t) ==
    IF i < 1 THEN g
    ELSE LET n == NoteUpdate(g.notes[i])
             moved == [g EXCEPT !.notes[i] = n]
             paddleY == (cv.height - CaracterHeight) * Tenth
         IN  IF isOut(n, cv.height)
             THEN UpdateNotesFromSkipAfterSplice(
                      [moved EXCEPT !.notes = Splice(moved.notes, i)],
                      cv, paddleX, i - 2, t)
             ELSE IF moved.isGameOver
             THEN UpdateNotesFromSkipAfterSplice(moved, cv, paddleX, i - 1, t)
             ELSE IF collidesWithRect(n, paddleX, paddleY,
                                      CaracterWidth * Tenth, CaracterHeight * Tenth)
             THEN LET caught == applyCollisionEffects(moved, n, t)
                  IN  UpdateNotesFromSkipAfterSplice(
                          [caught EXCEPT !.notes = Splice(caught.notes, i)],
                          cv, paddleX, i - 2, t)
             ELSE UpdateNotesFromSkipAfterSplice(moved, cv, paddleX, i - 1, t)

RECURSIVE UpdateNotesFrom(_, _, _, _, _)
\* the body of the for loop of updateNotes, from index i down to 1
UpdateNotesFrom(g, cv, paddleX, i, t) ==
    IF i < 1 THEN g
    ELSE LET n == NoteUpdate(g.notes[i])
             moved == [g EXCEPT !.notes[i] = n]
             paddleY == (cv.height - CaracterHeight) * Tenth
         IN  IF isOut(n, cv.height)
             THEN UpdateNotesFrom([moved EXCEPT !.notes = Splice(moved.notes, i)],
                                  cv, paddleX, i - 1, t)
             ELSE IF moved.isGameOver
             THEN UpdateNotesFrom(moved, cv, paddleX, i - 1, t)
             ELSE IF collidesWithRect(n, paddleX, paddleY,
                                      CaracterWidth * Tenth, CaracterHeight * Tenth)
             THEN LET caught == applyCollisionEffects(moved, n, t)
                  IN  UpdateNotesFrom([caught EXCEPT !.notes = Splice(caught.notes, i)],
                                      cv, paddleX, i - 1, t)
             ELSE UpdateNotesFrom(moved, cv, paddleX, i - 1, t)

updateNotes(g, cv, t) == UpdateNotesFrom(g, cv, g.caracterX, Len(g.notes), t)

\* updatePlayer() without its isGameOver test
updatePlayerNoFreeze(g, cv) ==
    LET step == PaddleStep * Tenth
        limit == (cv.width - CaracterWidth) * Tenth
    IN  IF g.directionToken
        THEN [g EXCEPT !.caracterX =
                  IF g.rightPressed /\ g.caracterX < limit THEN g.caracterX + step
                  ELSE IF g.leftPressed /\ g.caracterX > 0 THEN g.caracterX - step
                  ELSE g.caracterX,
                       !.directionToken = FALSE]
        ELSE [g EXCEPT !.caracterX =
                  IF g.leftPressed /\ g.caracterX > 0 THEN g.caracterX - step
                  ELSE IF g.rightPressed /\ g.caracterX < limit THEN g.caracterX + step
                  ELSE g.caracterX,
                       !.directionToken = TRUE]

\* updatePlayer() that tries the right first on every tick
updatePlayerRightFirst(g, cv) ==
    IF g.isGameOver THEN g
    ELSE LET step == PaddleStep * Tenth
             limit == (cv.width - CaracterWidth) * Tenth
         IN  [g EXCEPT !.caracterX =
                  IF g.rightPressed /\ g.caracterX < limit THEN g.caracterX + step
                  ELSE IF g.leftPressed /\ g.caracterX > 0 THEN g.caracterX - step
                  ELSE g.caracterX,
                       !.directionToken = ~g.directionToken]

updatePlayer(g, cv) ==
    IF g.isGameOver THEN g
    ELSE LET step == PaddleStep * Tenth
             limit == (cv.width - CaracterWidth) * Tenth
         IN  IF g.directionToken
             THEN [g EXCEPT !.caracterX =
                       IF g.rightPressed /\ g.caracterX < limit THEN g.caracterX + step
                       ELSE IF g.leftPressed /\ g.caracterX > 0 THEN g.caracterX - step
                       ELSE g.caracterX,
                            !.directionToken = FALSE]
             ELSE [g EXCEPT !.caracterX =
                       IF g.leftPressed /\ g.caracterX > 0 THEN g.caracterX - step
                       ELSE IF g.rightPressed /\ g.caracterX < limit THEN g.caracterX + step
                       ELSE g.caracterX,
                            !.directionToken = TRUE]

\* the spawn test with the probability capped below 1
SpawnTestCapped(r, difficultyLevel) ==
    r < (IF SpawnBase + difficultyLevel < SpawnScale
         THEN SpawnBase + difficultyLevel ELSE SpawnScale - 1)

\* Math.random() < 0.03 + (this.difficultyLevel / 300); r is the
\* three-hundredth Math.random() falls in, 0 .. 299
SpawnTest(r, difficultyLevel) == r < SpawnBase + difficultyLevel

\* history: no frame of engine 1 drew yet
NoFrame == [r |-> 0, spawned |-> FALSE]

\* spawnNote(): rt is Math.random() * totalWeight, rx and rdy the draws of Note
spawnNote(g, cv, rt, rx, rdy) ==
    [g EXCEPT !.notes = Append(g.notes,
         Note(getRandomNoteType(rt), cv.width, NoteWidth, NoteHeight,
              g.difficultyLevel, rx, rdy))]

----------------------------------------------------------------------------
(* highscores.js and menu.js: the results view *)

NoView == [np |-> 0, update |-> FALSE, direct |-> FALSE, thisUser |-> NoUser,
           thisScore |-> Null, friend |-> NoUser, friendScore |-> Null,
           alert |-> "none", banner |-> Null]

\* set_score_text(numberOfPlayers, direct, thisScore, myUserFriendScore): the
\* value max_score holds when the banner is written
set_score_text(st, np, direct, thisScore, myUserFriendScore) ==
    LET given == IF np = 2
                 THEN IF direct
                      THEN IF ~JsLess(thisScore, myUserFriendScore)
                           THEN thisScore ELSE myUserFriendScore
                      ELSE Num(0)
                 ELSE IF np = 1 /\ direct THEN thisScore
                 ELSE Num(0)
        one == IF np >= 1 /\ JsLess(given, get_score_session(st, "Player 1"))
               THEN get_score_session(st, "Player 1") ELSE given
        two == IF np >= 2 /\ JsLess(one, get_score_session(st, "Player 2"))
               THEN get_score_session(st, "Player 2") ELSE one
    IN  IF direct THEN given ELSE two

\* the banner printHighScores() writes: set_score_text(numberOfPlayers,
\* direct, thisScore) after a direct update, set_score_text(numberOfPlayers)
\* otherwise
printedBanner(st, np, update, direct, thisScore) ==
    IF direct /\ update THEN set_score_text(st, np, TRUE, thisScore, Null)
    ELSE set_score_text(st, np, FALSE, Null, Null)

\* update_highscores(null, ...) raises in change_name (null.toUpperCase())
printHighScoresThrows(np, update, direct, friend) ==
    direct /\ update /\ np = 2 /\ friend = NoUser

printHighScores(st, np, update, direct, thisUser, thisScore, friend, friendScore) ==
    IF direct /\ update
    THEN LET one == update_highscores(st, thisUser, thisScore)
         IN  IF np = 2 /\ friend # NoUser
             THEN update_highscores(one, friend, friendScore)
             ELSE one
    ELSE IF update
    THEN LET one == update_highscores(st, "Player 1", get_score_session(st, "Player 1"))
         IN  IF np = 2
             THEN update_highscores(one, "Player 2", get_score_session(one, "Player 2"))
             ELSE one
    ELSE st

viewHighscores(w, np, update, direct, thisUser, thisScore, friend, friendScore) ==
    LET threw == printHighScoresThrows(np, update, direct, friend)
        alert == IF np = 2 /\ direct /\ ~threw
                 THEN twoPlayersWinnerAlert(thisUser, thisScore, friend, friendScore)
                 ELSE "none"
    IN  [w EXCEPT !.isPlaying = FALSE,
                  !.isGaming = FALSE,
                  !.storage = printHighScores(w.storage, np, update, direct,
                                  thisUser, thisScore, friend, friendScore),
                  !.hist.viewCalls = IF w.hist.viewCalls < MaxViews
                                     THEN w.hist.viewCalls + 1 ELSE MaxViews,
                  !.hist.lastView =
                      [np |-> np, update |-> update, direct |-> direct,
                       thisUser |-> thisUser, thisScore |-> thisScore,
                       friend |-> friend, friendScore |-> friendScore,
                       alert |-> alert,
                       banner |-> IF threw THEN w.hist.lastView.banner
                                  ELSE printedBanner(w.storage, np, update,
                                                     direct, thisScore)]]

----------------------------------------------------------------------------
(* Game.js: the game-over transition, the frame, start and restart *)

gameOverThrows(w, e) ==
    ~w.games[e].dead /\ ~increment_game_state_defined(w.storage)

gameOver(w, e, update) ==
    LET g == w.games[e]
        saved == set_score_session(w.storage, g.user, Num(g.score))
        gameState == increment_game_state_result(saved)
        marked == increment_game_state(saved, g.user, g.score)
        navigates == g.numberOfPlayers = 1 \/ gameState.isMyfriendLose
        entry == [user |-> g.user, score |-> g.score, np |-> g.numberOfPlayers,
                  update |-> update,
                  active |-> gameState.isMyfriendLose,
                  friend |-> gameState.myUserFriend,
                  friendScore |-> gameState.myUserFriendScore,
                  scheduled |-> navigates]
    IN  IF g.dead THEN w
        ELSE IF ~increment_game_state_defined(saved)
        THEN [w EXCEPT !.games[e].dead = TRUE,
                       !.games[e].transitions = g.transitions + 1,
                       !.storage = marked]
        ELSE IF navigates
        THEN [w EXCEPT !.games[e].dead = TRUE,
                       !.games[e].transitions = g.transitions + 1,
                       !.storage = marked,
                       !.hist.goLog = Append(w.hist.goLog, entry),
                       !.timers = AddTimer(w.timers,
                                      TimeoutTimer(e, FreshId(w.timers), update,
                                                   gameState.myUserFriend,
                                                   gameState.myUserFriendScore))]
        ELSE [w EXCEPT !.games[e].dead = TRUE,
                       !.games[e].transitions = g.transitions + 1,
                       !.storage = marked,
                       !.hist.goLog = Append(w.hist.goLog, entry)]

\* the callback gameOver() hands to setTimeout, run for the timer t
NavigationCallback(w, t) ==
    LET stopped == stopDifficultyRamp(w, t.owner)
        g == stopped.games[t.owner]
    IN  viewHighscores([stopped EXCEPT !.timers = RemoveTimer(stopped.timers, t.id)],
                       stopped.numberOfPlayers, t.update, TRUE, g.user, Num(g.score),
                       t.friend, t.friendScore)

drawGameOver(w, e) ==
    IF w.games[e].gameOverAlreadyHandled THEN w
    ELSE gameOver([w EXCEPT !.games[e].gameOverAlreadyHandled = TRUE], e, TRUE)

drawGameOverThrows(w, e) ==
    ~w.games[e].gameOverAlreadyHandled /\ gameOverThrows(w, e)

requestAnimationFrame(w, e) ==
    [w EXCEPT !.games[e].rafPending = w.games[e].rafPending + 1]

\* loop() without the early return of the start screen
loopNoStartScreen(w, e, spawn, rt, rx, rdy) ==
    LET g == w.games[e]
        cv == w.canvas[e]
        spawned == IF ~g.isGameOver /\ spawn
                   THEN spawnNote(g, cv, rt, rx, rdy) ELSE g
        updated == updatePlayer(updateNotes(spawned, cv, w.now), cv)
        drawn == [w EXCEPT !.games[e] = updated]
    IN  IF ~updated.isGameOver THEN requestAnimationFrame(drawn, e)
        ELSE IF drawGameOverThrows(drawn, e) THEN drawGameOver(drawn, e)
        ELSE requestAnimationFrame(drawGameOver(drawn, e), e)

\* loop() that spawns after game over too
loopSpawnsAfterOver(w, e, spawn, rt, rx, rdy) ==
    LET g == w.games[e]
        cv == w.canvas[e]
    IN  IF ~g.gameStarted /\ ~g.isGameOver
        THEN requestAnimationFrame(w, e)
        ELSE LET spawned == IF spawn
                            THEN spawnNote(g, cv, rt, rx, rdy) ELSE g
                 updated == updatePlayer(updateNotes(spawned, cv, w.now), cv)
                 drawn == [w EXCEPT !.games[e] = updated]
             IN  IF ~updated.isGameOver THEN requestAnimationFrame(drawn, e)
                 ELSE IF drawGameOverThrows(drawn, e) THEN drawGameOver(drawn, e)
                 ELSE requestAnimationFrame(drawGameOver(drawn, e), e)

\* loop(): spawn is whether Math.random() < 0.03 + difficultyLevel / 300
loop(w, e, spawn, rt, rx, rdy) ==
    LET g == w.games[e]
        cv == w.canvas[e]
    IN  IF ~g.gameStarted /\ ~g.isGameOver
        THEN requestAnimationFrame(w, e)
        ELSE LET spawned == IF ~g.isGameOver /\ spawn
                            THEN spawnNote(g, cv, rt, rx, rdy) ELSE g
                 updated == updatePlayer(updateNotes(spawned, cv, w.now), cv)
                 drawn == [w EXCEPT !.games[e] = updated]
             IN  IF ~updated.isGameOver THEN requestAnimationFrame(drawn, e)
                 ELSE IF drawGameOverThrows(drawn, e) THEN drawGameOver(drawn, e)
                 ELSE requestAnimationFrame(drawGameOver(drawn, e), e)

\* start() that calls loop() on every call
startLoopsAgain(w, e, prev) ==
    LET released == [w EXCEPT !.storage = release_game_state(w.storage)]
        looped == [loop(released, e, FALSE, 0, 0, 0)
                       EXCEPT !.games[e].previewed = TRUE]
    IN  IF prev THEN looped
        ELSE startDifficultyRamp(
                 [looped EXCEPT !.games[e] = [attachInput(@) EXCEPT !.gameStarted = TRUE],
                                !.storage = get_name_storage(looped.storage, UserOf(e))],
                 e)

start(w, e, prev) ==
    LET released == [w EXCEPT !.storage = release_game_state(w.storage)]
        looped == IF ~released.games[e].previewed
                  THEN [loop(released, e, FALSE, 0, 0, 0)
                            EXCEPT !.games[e].previewed = TRUE]
                  ELSE released
    IN  IF prev THEN looped
        ELSE startDifficultyRamp(
                 [looped EXCEPT !.games[e] = [attachInput(@) EXCEPT !.gameStarted = TRUE],
                                !.storage = get_name_storage(looped.storage, UserOf(e))],
                 e)

\* resetStateToDefaults() that keeps the score and the difficulty level
resetStateToDefaultsKeepsRun(w, e) ==
    [w EXCEPT !.storage = get_name_storage(w.storage, UserOf(e)),
              !.games[e] =
                  [@ EXCEPT !.lives = InitialLives * Quarter,
                            !.gameStarted = FALSE,
                            !.isGameOver = FALSE,
                            !.gameOverAlreadyHandled = FALSE,
                            !.dead = FALSE,
                            !.rightPressed = FALSE,
                            !.leftPressed = FALSE,
                            !.difficultyIntervalId = NullId,
                            !.deathAnimStart = <<>>,
                            !.notes = <<>>,
                            !.caracterX =
                                ((w.canvas[e].width - CaracterWidth) * Tenth) \div 2,
                            !.gameOverCues = 0,
                            !.checkedLives = InitialLives * Quarter,
                            !.transitions = 0]]

resetStateToDefaults(w, e) ==
    [w EXCEPT !.storage = get_name_storage(w.storage, UserOf(e)),
              !.games[e] =
                  [@ EXCEPT !.score = 0,
                            !.lives = InitialLives * Quarter,
                            !.gameStarted = FALSE,
                            !.isGameOver = FALSE,
                            !.gameOverAlreadyHandled = FALSE,
                            !.dead = FALSE,
                            !.rightPressed = FALSE,
                            !.leftPressed = FALSE,
                            !.difficultyLevel = 1,
                            !.difficultyIntervalId = NullId,
                            !.deathAnimStart = <<>>,
                            !.notes = <<>>,
                            !.caracterX =
                                ((w.canvas[e].width - CaracterWidth) * Tenth) \div 2,
                            !.gameOverCues = 0,
                            !.checkedLives = InitialLives * Quarter,
                            !.transitions = 0]]

restart(w, e) ==
    LET released == [w EXCEPT !.storage = release_game_state(w.storage)]
        reset == resetStateToDefaults(released, e)
    IN  startDifficultyRamp([reset EXCEPT !.games[e].gameStarted = TRUE], e)

----------------------------------------------------------------------------
(* menu.js: the handlers of the menu.  hist is history: the results views  *)
(* shown and the game-over transitions logged since the current run began, *)
(* the player count the run began with, the arguments of the last results  *)
(* view, and (before) engine 1 as it was before the last step when that    *)
(* step was a method of the engine called on its own (and behind it, as it *)
(* was before the call just before, when the two were consecutive calls of *)
(* updatePlayer()), <<>> otherwise;                                        *)
(* (pick) a call of getRandomNoteType(); (frame) the spawn draw of the     *)
(* last frame of engine 1 and whether that frame called spawnNote().       *)

\* canvas2.width is never assigned: it keeps the width of the page
showGame(w, np, prev) ==
    LET h == IF prev THEN PreviewHeight ELSE GameHeight
    IN  [w EXCEPT !.canvas[1] = [width |-> IF np = 2 THEN TwoPlayerWidth
                                           ELSE OnePlayerWidth,
                                 height |-> h],
                  !.canvas[2].height = h]

viewGame(w, np) == showGame([w EXCEPT !.isGaming = TRUE], np, w.preview)

\* history only: a run begins
NewRun(w, np) ==
    [w EXCEPT !.hist.viewCalls = 0, !.hist.runPlayers = np, !.hist.goLog = <<>>,
              !.hist.runs = w.hist.runs + 1]

restartGame(w, np) ==
    LET named1 == change_name(w.storage, "Player 1")
        named == IF np = 2 THEN change_name(named1, "Player 2") ELSE named1
        shown == viewGame([NewRun(w, np) EXCEPT !.isPlaying = TRUE,
                                                !.storage = named], np)
        one == restart(shown, 1)
    IN  IF np = 2 THEN restart(one, 2) ELSE one

startGame(w, np, prev) ==
    LET named1 == change_name(w.storage, "Player 1")
        named == IF np = 2 THEN change_name(named1, "Player 2") ELSE named1
        begun == IF prev THEN w
                 ELSE [NewRun(w, np) EXCEPT !.isPlaying = TRUE, !.storage = named]
        shown == viewGame(begun, np)
    IN  IF np = 2 THEN start(start(shown, 1, prev), 2, prev)
        ELSE start(shown, 1, prev)

wantToToggleNumberOfPlayersHandler(w) ==
    LET np == IF w.numberOfPlayers = 1 THEN 2 ELSE 1
        set == [w EXCEPT !.numberOfPlayers = np,
                         !.games[1].numberOfPlayers = np,
                         !.games[2].numberOfPlayers = np]
    IN  IF w.isGaming THEN viewGame(set, np) ELSE set

wantToStartHandler(w) ==
    IF w.preview
    THEN startGame([w EXCEPT !.preview = FALSE], w.numberOfPlayers, FALSE)
    ELSE IF ~w.isGaming THEN restartGame(w, w.numberOfPlayers)
    ELSE w

\* game1.gameOver(false) raising leaves game2.gameOver(false) uncalled
wantToSeeHighScoresHandler(w) ==
    IF w.preview
    THEN viewHighscores(w, w.numberOfPlayers, FALSE, FALSE, NoUser, Null,
                        NoUser, Null)
    ELSE LET one == gameOver(w, 1, FALSE)
         IN  IF w.numberOfPlayers = 2 /\ ~gameOverThrows(w, 1)
             THEN gameOver(one, 2, FALSE)
             ELSE one

----------------------------------------------------------------------------
(* main.js: the page after its script has run *)

NoHistory == [viewCalls |-> 0, runPlayers |-> 0, runs |-> 0, goLog |-> <<>>,
              lastView |-> NoView, before |-> <<>>, pick |-> NoPick,
              frame |-> NoFrame]

\* let numberOfPlayers = 1; preview = true; isGaming = true; isPlaying = false;
\* game1 = initialiseGame(player1[0], numberOfPlayers, ...);
\* game2 = initialiseGame(player2[0], 2, ...)
BlankWorld ==
    [games |-> [e \in Engines |->
                   Game(UserOf(e), IF e = 1 THEN 1 ELSE 2,
                        IF e = 1 THEN OnePlayerWidth ELSE TwoPlayerWidth)],
     canvas |-> [e \in Engines |->
                   [width |-> IF e = 1 THEN OnePlayerWidth ELSE TwoPlayerWidth,
                    height |-> PreviewHeight]],
     storage |-> EmptyStorage,
     timers |-> {},
     numberOfPlayers |-> 1,
     preview |-> TRUE,
     isGaming |-> TRUE,
     isPlaying |-> FALSE,
     now |-> 0,
     hist |-> NoHistory]

\* startGame(numberOfPlayers, preview); game2.start(2, preview)
Boot == start(startGame(BlankWorld, 1, TRUE), 2, TRUE)

InitFrom(w) ==
    /\ games = w.games
    /\ canvas = w.canvas
    /\ storage = w.storage
    /\ timers = w.timers
    /\ numberOfPlayers = w.numberOfPlayers
    /\ preview = w.preview
    /\ isGaming = w.isGaming
    /\ isPlaying = w.isPlaying
    /\ now = w.now
    /\ hist = w.hist

Init == InitFrom(Boot)

----------------------------------------------------------------------------
(* The events of the page *)

\* document keydown, gated by !isPlaying
KeyP == ~isPlaying /\ Commit(wantToToggleNumberOfPlayersHandler(World))

KeyEnter ==
    /\ ~isPlaying
    /\ hist.runs < MaxRuns
    /\ Commit(wantToStartHandler(World))

KeySpace == ~isPlaying /\ Commit(wantToSeeHighScoresHandler(World))

\* Math.random() * totalWeight, in hundredths: an F
TypeDraws == {85}
\* Math.random() of the note's column and of its speed, in tenths
XDraws == {3}
DyDraws == {9}

\* the notes, score and lives of a run stay within the bounds of the model
RECURSIVE Pending(_, _, _)
Pending(notes, n, field) ==
    IF n = 0 THEN 0
    ELSE Pending(notes, n - 1, field)
         + (IF field = "score" THEN notes[n].type.score
            ELSE IF notes[n].type.lifeDelta > 0 THEN notes[n].type.lifeDelta
            ELSE 0)

SpawnAllowed(g, rt, maxNotes, maxScore) ==
    LET type == getRandomNoteType(rt)
        gain == IF type.lifeDelta > 0 THEN type.lifeDelta ELSE 0
    IN  /\ Len(g.notes) < maxNotes
        /\ g.score + Pending(g.notes, Len(g.notes), "score") + type.score
               <= maxScore
        /\ g.lives + Pending(g.notes, Len(g.notes), "lives") + gain <= MaxLives

\* the animation frame of engine e, its draws taken from the given sets
FrameWith(e, types, xs, dys, maxNotes, maxScore) ==
    /\ games[e].rafPending > 0
    /\ \E spawn \in BOOLEAN, rt \in types, rx \in xs, rdy \in dys :
          /\ spawn => SpawnAllowed(games[e], rt, maxNotes, maxScore)
          /\ ~spawn => (rt = CHOOSE r \in types : TRUE)
          /\ ~spawn => (rx = CHOOSE r \in xs : TRUE)
          /\ ~spawn => (rdy = CHOOSE r \in dys : TRUE)
          /\ Commit(loop([World EXCEPT !.games[e].rafPending = @ - 1],
                         e, spawn, rt, rx, rdy))

Frame(e) ==
    FrameWith(e, TypeDraws, XDraws, DyDraws, MaxNotesTimed,
              MaxScoreTimed)

\* the difficulty ticker t is due: its callback runs and it is armed again
IntervalFires(t) ==
    /\ t.kind = "interval"
    /\ t.left = 0
    /\ Commit([World EXCEPT
                 !.games[t.owner] = DifficultyTick(@),
                 !.timers = AddTimer(RemoveTimer(timers, t.id),
                                     [t EXCEPT !.left = DifficultyPeriod])])

\* the navigation timeout t is due
TimeoutFires(t) ==
    /\ t.kind = "timeout"
    /\ t.left = 0
    /\ Commit(NavigationCallback(World, t))

\* a second passes; a timer that is due runs first.  The clock is read for
\* timers and for deathAnimStart only, and a run always has its ticker: the
\* seconds that pass with no timer pending are not counted.
Tick ==
    /\ now < MaxNow
    /\ timers # {}
    /\ \A t \in timers : t.left > 0
    /\ now' = now + 1
    /\ timers' = {[t EXCEPT !.left = @ - 1] : t \in timers}
    /\ UNCHANGED <<games, canvas, storage, numberOfPlayers,
                   preview, isGaming, isPlaying, hist>>

\* syncTouchesToState(e) that reads every touch of the event
syncTouchesToStateUncapped(g, cv, touches) ==
    [g EXCEPT !.leftPressed =
                  \E i \in 1..Len(touches) : 2 * touches[i] < cv.width,
              !.rightPressed =
                  \E i \in 1..Len(touches) : ~(2 * touches[i] < cv.width)]

\* syncTouchesToState(e): touches is e.targetTouches, each touch given by
\* clientX - rect.left in the unit of rect.width, here the canvas width
syncTouchesToState(g, cv, touches) ==
    LET count == IF Len(touches) < 2 THEN Len(touches) ELSE 2
    IN  [g EXCEPT !.leftPressed =
                      \E i \in 1..count : 2 * touches[i] < cv.width,
                  !.rightPressed =
                      \E i \in 1..count : ~(2 * touches[i] < cv.width)]

\* touchStartHandler, touchMoveHandler, touchEndHandler
touchSyncHandler(g, cv, touches) == syncTouchesToState(g, cv, touches)

touchCancelHandler(g) == [g EXCEPT !.leftPressed = FALSE, !.rightPressed = FALSE]

\* keyDownHandler / keyUpHandler of engine e, once attachInput() has run
keyDownHandler(g, right) ==
    IF right THEN [g EXCEPT !.rightPressed = TRUE]
    ELSE [g EXCEPT !.leftPressed = TRUE]

keyUpHandler(g, right) ==
    IF right THEN [g EXCEPT !.rightPressed = FALSE]
    ELSE [g EXCEPT !.leftPressed = FALSE]

Next ==
    \/ KeyP
    \/ KeyEnter
    \/ KeySpace
    \/ \E e \in Engines : Frame(e)
    \/ \E t \in timers : IntervalFires(t)
    \/ \E t \in timers : TimeoutFires(t)
    \/ Tick

Spec == Init /\ [][Next]_vars

----------------------------------------------------------------------------
(* One engine driven through its public methods.  SpecEngine runs the     *)
(* frames of engine 1 with notes of every effect and of two speeds, before *)
(* any timer is due; SpecLifecycle runs start(), restart(), gameOver(),    *)
(* the keys and the timers around frames that draw the fatal note only.    *)

\* a B, an Fx and an F; a slow and a fast note
EngineTypeDraws == {5, 60, 85}
EngineDyDraws == {0, 9}
\* the keys pressed: the right one
KeyDraws == {TRUE}

EngineStart ==
    /\ ~games[1].gameStarted
    /\ Commit(start(World, 1, FALSE))

EngineRestartUpTo(maxTimers) ==
    /\ Cardinality(timers) < maxTimers
    /\ Commit(restart(World, 1))

EngineRestart == EngineRestartUpTo(MaxTimers)

TimedRestart == EngineRestartUpTo(MaxTimersTimed)

\* a B and an F
TimedTypeDraws == {5, 85}

TimedFrame ==
    FrameWith(1, TimedTypeDraws, XDraws, DyDraws, MaxNotesTimed, MaxScore)

EngineFrame ==
    FrameWith(1, EngineTypeDraws, XDraws, EngineDyDraws, MaxNotes, MaxScore)

EngineKeyDown ==
    /\ games[1].inputAttached
    /\ \E right \in KeyDraws :
          Commit([World EXCEPT !.games[1] = keyDownHandler(@, right)])

EngineKeyUp ==
    /\ games[1].inputAttached
    /\ \E right \in KeyDraws :
          Commit([World EXCEPT !.games[1] = keyUpHandler(@, right)])

NextEngine ==
    \/ EngineStart
    \/ EngineRestart
    \/ EngineFrame

SpecEngine == Init /\ [][NextEngine]_vars

NextLifecycle ==
    \/ EngineStart
    \/ TimedRestart
    \/ TimedFrame
    \/ EngineKeyDown
    \/ EngineKeyUp
    \/ \E t \in timers : IntervalFires(t)
    \/ \E t \in timers : TimeoutFires(t)
    \/ Tick

SpecLifecycle == Init /\ [][NextLifecycle]_vars

----------------------------------------------------------------------------
(* gameOver() on engines as constructed, over what sessionStorage may hold *)
(* of the handshake when the page loads (the storage outlives a reload).   *)

FlagDraws == {NoItem, "false", "true"}
ScoreDraws == {0, 50}

InitHandshake ==
    \E flag \in FlagDraws, owner \in {"Player 1", "Player 2"}, sc \in ScoreDraws :
        /\ flag # "true" => (owner = "Player 2" /\ sc = 0)
        /\ InitFrom([BlankWorld EXCEPT
                        !.storage.game_state_boolean = flag,
                        !.storage.game_state_user =
                            IF flag = "true" THEN owner
                            ELSE IF flag = "false" THEN "" ELSE NoItem,
                        !.storage.game_state_score =
                            IF flag = NoItem THEN Null ELSE StrOf(sc)])

\* engine.addScore(50)
AddScoreCall(e) ==
    /\ games[e].score + 50 <= MaxScore
    /\ Commit([World EXCEPT !.games[e] = addScore(@, 50)])

\* engine.numberOfPlayers = n
SetPlayers(e) ==
    \E n \in {1, 2} :
        /\ games[e].numberOfPlayers # n
        /\ ~games[e].dead
        /\ Commit([World EXCEPT !.games[e].numberOfPlayers = n])

\* engine.gameOver(update)
GameOverCall(e) ==
    /\ ~games[e].dead
    /\ \E update \in BOOLEAN : Commit(gameOver(World, e, update))

NextHandshake ==
    \/ \E e \in Engines : AddScoreCall(e)
    \/ \E e \in Engines : SetPlayers(e)
    \/ \E e \in Engines : GameOverCall(e)
    \/ \E t \in timers : TimeoutFires(t)
    \/ Tick

SpecHandshake == InitHandshake /\ [][NextHandshake]_vars

----------------------------------------------------------------------------
(* addLives() and checkGameOver() called at will on engine 1 *)

\* the lifeDelta of an Fx and of an F
LifeDraws == {-2, -4}

AddLivesCall ==
    \E delta \in LifeDraws :
        /\ games[1].lives + delta >= -MaxDebt
        /\ Commit([World EXCEPT !.games[1] = addLives(@, delta)])

CheckGameOverCall ==
    /\ games[1].gameOverCues < MaxCues
    /\ Commit([World EXCEPT !.games[1] = checkGameOver(@, now)])

\* a second passes with no timer pending
ClockTick ==
    /\ now < MaxNow
    /\ timers = {}
    /\ now' = now + 1
    /\ UNCHANGED <<games, canvas, storage, timers, numberOfPlayers,
                   preview, isGaming, isPlaying, hist>>

NextCheck ==
    \/ AddLivesCall
    \/ CheckGameOverCall
    \/ ClockTick

SpecCheck == Init /\ [][NextCheck]_vars

----------------------------------------------------------------------------
(* The page with its highscores button, whose click listener is not gated  *)
(* by isPlaying: a run of one player that the button may end at any frame. *)

\* highscoresButton.addEventListener("click", ...)
HighscoresClick == Commit(wantToSeeHighScoresHandler(World))

NextForced ==
    \/ KeyEnter
    \/ HighscoresClick
    \/ \E e \in Engines : Frame(e)
    \/ EngineKeyDown
    \/ EngineKeyUp
    \/ \E t \in timers : IntervalFires(t)
    \/ \E t \in timers : TimeoutFires(t)
    \/ Tick

SpecForced == Init /\ [][NextForced]_vars

----------------------------------------------------------------------------
(* updateNotes() and spawnNote() called on engine 1 in a one-player run,   *)
(* with notes that land on the paddle and notes that fall beside it.       *)

\* notes live at once and score reached where updateNotes() is called alone
MaxNotesPass == 2
MaxScorePass == 150
\* an A, a B and an F; a column left of the paddle and one above it
PassTypeDraws == {0, 5, 85}
PassXDraws == {0, 3}

\* Enter on the start screen: a one-player run
InitPass == InitFrom(wantToStartHandler(Boot))

SpawnNoteCall ==
    /\ ~games[1].isGameOver
    /\ \E rt \in PassTypeDraws, rx \in PassXDraws, rdy \in DyDraws :
          /\ SpawnAllowed(games[1], rt, MaxNotesPass, MaxScorePass)
          /\ Commit([World EXCEPT
                        !.games[1] = spawnNote(@, canvas[1], rt, rx, rdy),
                        !.hist.before = <<>>])

UpdateNotesCall ==
    Commit([World EXCEPT !.games[1] = updateNotes(@, canvas[1], now),
                         !.hist.before = <<games[1]>>])

NextPass ==
    \/ SpawnNoteCall
    \/ UpdateNotesCall

SpecPass == InitPass /\ [][NextPass]_vars

----------------------------------------------------------------------------
(* getRandomNoteType() over the registries the constructor may be given    *)
(* (opts.noteTypes): up to MaxTypes entries, named by their rank.          *)

MaxTypes == 3
\* the weights of an entry, in hundredths
WeightDraws == {-1, 0, 1, 2}

Registries ==
    UNION {{[k \in 1..n |-> [name |-> k, weight |-> f[k]]] :
               f \in [1..n -> WeightDraws]} : n \in 0..MaxTypes}

\* Math.random() * totalWeight, Math.random() being in [0, 1)
RDraws(total) ==
    IF total > 0 THEN 0..(total - 1)
    ELSE IF total = 0 THEN {0}
    ELSE (total + 1)..0

InitPick ==
    \E types \in Registries :
        \E r \in RDraws(SumWeights(types, Len(types))) :
            InitFrom([BlankWorld EXCEPT !.hist.pick = PickCall(types, r)])

PickIteration ==
    /\ hist.pick.pc = "loop"
    /\ Commit([World EXCEPT !.hist.pick = PickStep(@)])

PickedNoteDrawn ==
    /\ hist.pick.pc = "returned"
    /\ Commit([World EXCEPT !.hist.pick = NoteDraw(@)])

NextPick ==
    \/ PickIteration
    \/ PickedNoteDrawn

SpecPick == InitPick /\ [][NextPick]_vars

----------------------------------------------------------------------------
(* spawnNote() on engine 1 at every difficulty level up to MaxDifficulty,  *)
(* in a one-player and in a two-player run, with every draw of Note.       *)

MaxDifficulty == 4
\* Math.random(), in tenths
RandomDraws == 0..9

InitSpawn ==
    \E toggled \in BOOLEAN :
        InitFrom(wantToStartHandler(
                     IF toggled THEN wantToToggleNumberOfPlayersHandler(Boot)
                     ELSE Boot))

\* the interval callback of the ramp
RampCall ==
    /\ games[1].difficultyLevel < MaxDifficulty
    /\ Commit([World EXCEPT !.games[1] = DifficultyTick(@),
                            !.hist.before = <<>>])

SpawnAnyCall ==
    \E rt \in TypeDraws, rx \in RandomDraws, rdy \in RandomDraws :
        /\ SpawnAllowed(games[1], rt, MaxNotesTimed, MaxScoreTimed)
        /\ Commit([World EXCEPT
                      !.games[1] = spawnNote(@, canvas[1], rt, rx, rdy),
                      !.hist.before = <<games[1]>>])

NextSpawn ==
    \/ RampCall
    \/ SpawnAnyCall

SpecSpawn == InitSpawn /\ [][NextSpawn]_vars

----------------------------------------------------------------------------
(* The frames of engine 1 with the spawn draw taken: on the start screen,  *)
(* and in a one-player run from a level the ramp has reached before the    *)
(* first note is spawned (the first two levels, and the levels around      *)
(* 0.03 + difficultyLevel / 300 = 1).                                      *)

LevelDraws == {1, 2, 290, 291, 292}

\* the run after its interval callback has run level - 1 times
InitRamp ==
    \/ InitFrom(Boot)
    \/ \E level \in LevelDraws :
           InitFrom([wantToStartHandler(Boot) EXCEPT
                         !.games[1].difficultyLevel = level])

\* the draws around the threshold of the level, the least and the greatest
SpawnDrawsAt(difficultyLevel) ==
    {0, SpawnScale - 1}
        \cup ({SpawnBase + difficultyLevel - 1, SpawnBase + difficultyLevel}
                \cap 0..(SpawnScale - 1))

DrawnFrame ==
    /\ games[1].rafPending > 0
    /\ Len(games[1].notes) < MaxNotesPass
    /\ \E r \in SpawnDrawsAt(games[1].difficultyLevel),
          rt \in TypeDraws, rx \in PassXDraws, rdy \in DyDraws :
          LET spawn == SpawnTest(r, games[1].difficultyLevel)
              g == games[1]
          IN  /\ ~spawn => (rx = CHOOSE x \in PassXDraws : TRUE)
              /\ Commit([loop([World EXCEPT !.games[1].rafPending = @ - 1],
                              1, spawn, rt, rx, rdy)
                            EXCEPT !.hist.before = <<g>>,
                                   !.hist.frame =
                                       [r |-> r,
                                        spawned |-> (g.gameStarted
                                                     /\ ~g.isGameOver /\ spawn)]])

NextRamp == DrawnFrame

SpecRamp == InitRamp /\ [][NextRamp]_vars

----------------------------------------------------------------------------
(* updatePlayer() called on engine 1 in a one-player run, under every      *)
(* combination of the two arrow keys, before and after the run is lost.    *)

AnyKeyDown ==
    \E right \in BOOLEAN :
        /\ games[1].inputAttached
        /\ keyDownHandler(games[1], right) # games[1]
        /\ Commit([World EXCEPT !.games[1] = keyDownHandler(@, right),
                                !.hist.before = <<>>])

AnyKeyUp ==
    \E right \in BOOLEAN :
        /\ games[1].inputAttached
        /\ keyUpHandler(games[1], right) # games[1]
        /\ Commit([World EXCEPT !.games[1] = keyUpHandler(@, right),
                                !.hist.before = <<>>])

UpdatePlayerCall ==
    Commit([World EXCEPT
              !.games[1] = updatePlayer(@, canvas[1]),
              !.hist.before = IF hist.before = <<>> THEN <<games[1]>>
                              ELSE <<games[1], hist.before[1]>>])

\* applyCollisionEffects(note) with an F
FatalCatchCall ==
    /\ ~games[1].isGameOver
    /\ Commit([World EXCEPT
                  !.games[1] = applyCollisionEffects(@,
                      Note(NoteTypeF, canvas[1].width, NoteWidth, NoteHeight,
                           games[1].difficultyLevel, 0, 0), now),
                  !.hist.before = <<>>])

PaddleRestart ==
    /\ games[1].isGameOver
    /\ Cardinality(timers) < MaxTimersTimed
    /\ Commit([restart(World, 1) EXCEPT !.hist.before = <<>>])

NextPaddle ==
    \/ AnyKeyDown
    \/ AnyKeyUp
    \/ UpdatePlayerCall
    \/ FatalCatchCall
    \/ PaddleRestart

SpecPaddle == InitPass /\ [][NextPaddle]_vars

----------------------------------------------------------------------------
(* update_highscores() called at will over an empty session storage, up to *)
(* one entry past the limit.                                               *)

MaxEntries == HIGHSCORE_LIMIT + 1

UpdateHighscoresCall ==
    \E user \in {"Player 1", "Player 2"}, sc \in ScoreDraws :
        /\ Len(storage.highscores) < MaxEntries
        /\ Commit([World EXCEPT
                      !.storage = update_highscores(@, user, Num(sc))])

NextScores == UpdateHighscoresCall

SpecScores == InitFrom(BlankWorld) /\ [][NextScores]_vars

----------------------------------------------------------------------------
(* startDifficultyRamp() and stopDifficultyRamp() called at will on either *)
(* engine, between restarts of engine 1 and the seconds of the clock.      *)
(* hist.before holds the last call: the engine and the page's timers       *)
(* before and after it, and the kinds of call that found nothing to do.    *)

RampCallRecord(call, e, w) ==
    LET idle == IF call = "start"
                THEN games[e].difficultyIntervalId # NullId
                ELSE games[e].difficultyIntervalId = NullId
        seen == IF hist.before = <<>> THEN {} ELSE hist.before[1].idle
    IN  [call |-> call, engine |-> e,
         game |-> games[e], timers |-> timers,
         gameAfter |-> w.games[e], timersAfter |-> w.timers,
         idle |-> IF idle THEN seen \cup {call} ELSE seen]

StartRampCall(e) ==
    /\ Cardinality(timers) < MaxTimersTimed
    /\ LET w == startDifficultyRamp(World, e)
       IN  Commit([w EXCEPT !.hist.before = <<RampCallRecord("start", e, w)>>])

StopRampCall(e) ==
    LET w == stopDifficultyRamp(World, e)
    IN  Commit([w EXCEPT !.hist.before = <<RampCallRecord("stop", e, w)>>])

NextTicker ==
    \/ \E e \in Engines : StartRampCall(e)
    \/ \E e \in Engines : StopRampCall(e)
    \/ TimedRestart
    \/ \E t \in timers : IntervalFires(t)
    \/ Tick

SpecTicker == Init /\ [][NextTicker]_vars

----------------------------------------------------------------------------
(* spawnNote(), updateNotes() and the interval callback of the ramp called *)
(* at will on engine 1 in a one-player run: notes spawned at different     *)
(* levels fall together.                                                   *)

RampTickCall ==
    /\ games[1].difficultyLevel < MaxDifficulty
    /\ Commit([World EXCEPT !.games[1] = DifficultyTick(@),
                            !.hist.before = <<games[1]>>])

NextFall ==
    \/ SpawnNoteCall
    \/ UpdateNotesCall
    \/ RampTickCall

SpecFall == InitPass /\ [][NextFall]_vars

----------------------------------------------------------------------------
(* playSfx(key) called at will on either engine of a run, with every key   *)
(* of the sfx map and one that is not in it, between key events and fatal  *)
(* catches on engine 1.  hist.before holds the last call: the engine       *)
(* before and after it, and what the call did with the audio element.      *)

SfxKeyDraws == SfxKeys \cup {"missing"}

PlaySfxCall(e) ==
    \E key \in SfxKeyDraws, playback \in Playbacks :
        /\ games[e].gameOverCues < MaxCues
        /\ Commit([World EXCEPT
                      !.games[e] = playSfx(@, key),
                      !.hist.before =
                          <<[engine |-> e, key |-> key,
                             audio |-> SfxLookup(games[e].user, key),
                             playback |-> playback,
                             game |-> games[e],
                             gameAfter |-> playSfx(games[e], key),
                             result |-> PlayOutcome(
                                 SfxLookup(games[e].user, key), key, playback)]>>])

NextSfx ==
    \/ AnyKeyDown
    \/ AnyKeyUp
    \/ FatalCatchCall
    \/ \E e \in Engines : PlaySfxCall(e)

SpecSfx == InitPass /\ [][NextSfx]_vars

----------------------------------------------------------------------------
(* The touch events of the canvas of engine 1 in a one-player run, each    *)
(* with the list of touches it carries.  hist.before holds the last event: *)
(* its kind, its touches and the engine before it.                         *)

MaxTouches == 3

\* the left edge, the two columns next to the middle, the right edge
TouchDraws(width) == {0, (width \div 2) - 1, (width + 1) \div 2, width - 1}

TouchLists(width) ==
    UNION {[1..n -> TouchDraws(width)] : n \in 0..MaxTouches}

TouchSyncEvent ==
    /\ games[1].inputAttached
    /\ \E kind \in {"touchstart", "touchmove", "touchend"},
          touches \in TouchLists(canvas[1].width) :
          Commit([World EXCEPT
                     !.games[1] = touchSyncHandler(@, canvas[1], touches),
                     !.hist.before = <<[kind |-> kind, touches |-> touches,
                                        game |-> games[1]]>>])

TouchCancelEvent ==
    /\ games[1].inputAttached
    /\ \E touches \in TouchLists(canvas[1].width) :
          Commit([World EXCEPT
                     !.games[1] = touchCancelHandler(@),
                     !.hist.before = <<[kind |-> "touchcancel",
                                        touches |-> touches,
                                        game |-> games[1]]>>])

NextTouch ==
    \/ TouchSyncEvent
    \/ TouchCancelEvent

SpecTouch == InitPass /\ [][NextTouch]_vars

----------------------------------------------------------------------------
(* The results view opened over the scores two finished runs have left in  *)
(* session storage: by the navigation of a game-over transition, which     *)
(* hands over the score of its engine as a number and the score of the     *)
(* other player as the handshake stored it, and by the highscores button   *)
(* of the start screen, which hands over nothing.                          *)

\* no catch, a C, a B and an A
BannerScores == {0, 30, 50, 100}

StoredScores == {Null} \cup {StrOf(sc) : sc \in BannerScores}

InitBanner ==
    \E one \in StoredScores, two \in StoredScores :
        InitFrom([BlankWorld EXCEPT !.storage.score["Player 1"] = one,
                                    !.storage.score["Player 2"] = two])

\* viewHighscores(numberOfPlayers, update, true, this.user, this.score,
\* myUserFriend, myUserFriendScore) as the timeout of gameOver() calls it
DirectViewCall ==
    \E e \in Engines, np \in {1, 2}, update \in BOOLEAN :
        LET thisUser == UserOf(e)
            friend == UserOf(3 - e)
        IN  /\ storage.score[thisUser] # Null
            /\ np = 2 => storage.score[friend] # Null
            /\ update => storage.highscores = <<>>
            /\ Commit(viewHighscores(World, np, update, TRUE, thisUser,
                          Num(ToNumber(storage.score[thisUser])),
                          IF np = 2 THEN friend ELSE NoUser,
                          IF np = 2 THEN storage.score[friend] ELSE Null))

\* viewHighscores(numberOfPlayers, false) as wantToSeeHighScoresHandler()
\* calls it on the start screen
SessionViewCall ==
    \E np \in {1, 2} :
        Commit(viewHighscores(World, np, FALSE, FALSE, NoUser, Null,
                              NoUser, Null))

NextBanner ==
    \/ DirectViewCall
    \/ SessionViewCall

SpecBanner == InitBanner /\ [][NextBanner]_vars

----------------------------------------------------------------------------
(* One run of one player up to its results view: frames that bring a B or  *)
(* an F above the paddle, the highscores button, the timers and the clock. *)

NextHandover ==
    \/ HighscoresClick
    \/ TimedFrame
    \/ \E t \in timers : IntervalFires(t)
    \/ \E t \in timers : TimeoutFires(t)
    \/ Tick

SpecHandover == InitPass /\ [][NextHandover]_vars

----------------------------------------------------------------------------
(* The frames of engine 1 in a one-player run, through game over and       *)
(* restart, with notes of the lowest and of the highest speed of level 1   *)
(* beside the paddle and above it.  hist.before holds the number of frames *)
(* the engine has run since a frame began with isGameOver set, counted up  *)
(* to one past DrainFrames, and the number of notes live before the last   *)
(* frame.                                                                  *)

\* the lowest dy of a note: 2 + difficultyLevel * 0.1 at level 1, in tenths
MinDy == 2 * Tenth + 1

\* frames in which a note spawned at -noteHeight leaves a canvas of the
\* height of the game at the lowest speed
DrainFrames == ((GameHeight + NoteHeight) * Tenth) \div MinDy + 1

DrainDyDraws == {0, 9}

DrainFrame ==
    /\ games[1].rafPending > 0
    /\ \E spawn \in BOOLEAN, rt \in TimedTypeDraws, rx \in PassXDraws,
          rdy \in DrainDyDraws :
          LET over == IF hist.before = <<>> THEN 0 ELSE hist.before[1].over
          IN  /\ spawn => SpawnAllowed(games[1], rt, MaxNotes, MaxScore)
              /\ ~spawn => (rt = 5 /\ rx = 0 /\ rdy = 0)
              /\ Commit([loop([World EXCEPT !.games[1].rafPending = @ - 1],
                              1, spawn, rt, rx, rdy)
                            EXCEPT !.hist.before =
                                <<[over |-> IF ~games[1].isGameOver THEN 0
                                            ELSE IF over > DrainFrames THEN over
                                            ELSE over + 1,
                                   notes |-> Len(games[1].notes),
                                   wasOver |-> games[1].isGameOver]>>])

DrainRestart ==
    /\ games[1].isGameOver
    /\ Cardinality(timers) < MaxTimers
    /\ Commit([restart(World, 1) EXCEPT !.hist.before = <<>>])

NextDrain ==
    \/ DrainFrame
    \/ DrainRestart

SpecDrain == InitPass /\ [][NextDrain]_vars

----------------------------------------------------------------------------
(* Properties *)

\* the difficulty tickers engine e has active
TickersOf(e) == {t \in timers : t.kind = "interval" /\ t.owner = e}

PaddleY(e) == (canvas[e].height - CaracterHeight) * Tenth
Centre(e) == ((canvas[e].width - CaracterWidth) * Tenth) \div 2

\* C1: in a run of an engine the game-over transition executes at most
\* once, and once the overlay has been drawn exactly once; a run begun with
\* one player, while the page is set to one player, gets one results view.
C1_OneTransitionOneView ==
    /\ \A e \in Engines :
          /\ games[e].transitions <= 1
          /\ games[e].gameOverAlreadyHandled => games[e].transitions = 1
    /\ (hist.runPlayers = 1 /\ numberOfPlayers = 1) => hist.viewCalls <= 1

\* C2: in a run begun with two players the first game-over transition finds
\* the handshake inactive and schedules nothing, the second finds it active
\* with the first engine's identity and score and schedules the navigation,
\* and the results view is shown at most once, after both, with both
\* players' identities and scores.
C2_OneViewWithBoth ==
    hist.runPlayers = 2 =>
        /\ Len(hist.goLog) >= 1 =>
              (~hist.goLog[1].active /\ ~hist.goLog[1].scheduled)
        /\ Len(hist.goLog) >= 2 =>
              /\ hist.goLog[2].active
              /\ hist.goLog[2].scheduled
              /\ hist.goLog[2].friend = hist.goLog[1].user
              /\ hist.goLog[2].friendScore = StrOf(hist.goLog[1].score)
        /\ hist.viewCalls <= 1
        /\ hist.viewCalls = 1 =>
              /\ Len(hist.goLog) = 2
              /\ hist.lastView.thisUser = hist.goLog[2].user
              /\ hist.lastView.thisScore = Num(hist.goLog[2].score)
              /\ hist.lastView.friend = hist.goLog[1].user
              /\ hist.lastView.friendScore = StrOf(hist.goLog[1].score)

C4_OneTicker == \A e \in Engines : Cardinality(TickersOf(e)) <= 1

RestartPost ==
    /\ games[1].score = 0
    /\ games[1].lives = InitialLives * Quarter
    /\ games[1].difficultyLevel = 1
    /\ games[1].notes = <<>>
    /\ games[1].caracterX = Centre(1)
    /\ ~games[1].isGameOver
    /\ ~games[1].gameOverAlreadyHandled
    /\ ~games[1].dead
    /\ games[1].gameStarted

\* C5: whatever the state restart() is called in, it leaves score 0, lives 3,
\* difficulty level 1, no notes, the paddle centred, the three game-over
\* flags false and the engine playing.
C5_RestartResets == [][TimedRestart => RestartPost']_vars

\* the engine plays anew, with a ticker just armed, after a run that ended
\* with a score of 50
C5_Witness ==
    /\ RestartPost
    /\ storage.score["Player 1"] = StrOf(50)
    /\ \E t \in TickersOf(1) : t.left = DifficultyPeriod
    /\ now > 0

\* C6: while an engine is game over no step changes its score or lives, and
\* no catch effect is applied once isGameOver is set, the notes behind the
\* fatal one in the same pass included.
C6_FrozenAfterGameOver ==
    [][\A e \in Engines :
          /\ games'[e].caughtAfterOver = 0
          /\ (games[e].isGameOver /\ games'[e].isGameOver) =>
                 /\ games'[e].score = games[e].score
                 /\ games'[e].lives = games[e].lives]_vars

\* the engine is game over with a scoring note on the paddle
C6_Witness ==
    /\ games[1].isGameOver
    /\ \E i \in DOMAIN games[1].notes :
          /\ games[1].notes[i].type.score > 0
          /\ collidesWithRect(games[1].notes[i], games[1].caracterX, PaddleY(1),
                              CaracterWidth * Tenth, CaracterHeight * Tenth)

\* C7: between frames isGameOver holds exactly when lives are 0 or less,
\* and then lives are 0; isGameOver turns false by restart() only.
C7_GameOverIffNoLives ==
    [][\A e \in Engines :
          /\ games'[e].isGameOver <=> games'[e].lives <= 0
          /\ games'[e].isGameOver => games'[e].lives = 0
          /\ (games[e].isGameOver /\ ~games'[e].isGameOver) =>
                 (games'[e].gameStarted /\ games'[e].score = 0
                  /\ games'[e].lives = InitialLives * Quarter
                  /\ games'[e].notes = <<>>)]_vars

\* the engine is game over, the overlay drawn, with no lives
C7_Witness ==
    /\ games[1].isGameOver
    /\ games[1].gameOverAlreadyHandled
    /\ games[1].lives = 0

\* C8: lives are never negative between frames; checkGameOver() called with
\* lives above 0 leaves the engine playing, called with lives 0 or less it
\* leaves lives 0 and the engine game over.
C8_LivesNeverNegative ==
    \A e \in Engines :
        /\ games[e].lives >= 0
        /\ games[e].checkedLives > 0 =>
               (~games[e].isGameOver /\ games[e].lives >= games[e].checkedLives)
        /\ games[e].checkedLives <= 0 =>
               (games[e].isGameOver /\ games[e].lives = 0)

\* half a life, then an F: checkGameOver() was called with lives -0.5
C8_Witness ==
    /\ games[1].checkedLives = -2
    /\ games[1].lives = 0
    /\ games[1].isGameOver

\* C9: checkGameOver() called on an engine that is game over changes
\* neither deathAnimStart nor the count of game-over cues played.
C9_Idempotent ==
    [][games[1].isGameOver =>
          /\ games'[1].deathAnimStart = games[1].deathAnimStart
          /\ games'[1].gameOverCues = games[1].gameOverCues]_vars

\* C10: an engine that is game over has no difficulty ticker active.
C10_RampStopped ==
    \A e \in Engines : games[e].isGameOver => TickersOf(e) = {}

\* C11: once gameOver() has run on an engine that is playing, the engine is
\* game over, and until restart() no step moves its paddle or changes its
\* score or lives.
C11_ForcedGameOverFreezes ==
    [][\A e \in Engines :
          /\ (games'[e].dead /\ games'[e].gameStarted) => games'[e].isGameOver
          /\ (games[e].dead /\ games'[e].dead) =>
                 /\ games'[e].caracterX = games[e].caracterX
                 /\ games'[e].score = games[e].score
                 /\ games'[e].lives = games[e].lives]_vars

\* the notes of a sequence that are not below the canvas after their move
RECURSIVE StayingIn(_, _)
StayingIn(notes, canvasHeight) ==
    IF notes = <<>> THEN <<>>
    ELSE IF isOut(NoteUpdate(Head(notes)), canvasHeight)
    THEN StayingIn(Tail(notes), canvasHeight)
    ELSE <<Head(notes)>> \o StayingIn(Tail(notes), canvasHeight)

\* C12: no live note of an engine is below the canvas (y above its height),
\* playing or game over; and an updateNotes() pass leaves the engine exactly
\* as it would had the notes that end below the canvas not been there: they
\* are removed and none of their catch effects is applied.
C12_OutNotesPruned ==
    /\ \A e \in Engines : \A i \in DOMAIN games[e].notes :
           ~isOut(games[e].notes[i], canvas[e].height)
    /\ hist.before # <<>> =>
           LET b == hist.before[1]
               kept == StayingIn(b.notes, canvas[1].height)
           IN  games[1] = updateNotes([b EXCEPT !.notes = kept], canvas[1], now)

\* a pass has just removed a note that fell beside the paddle of a playing
\* engine, and has caught or moved the other
C12_Witness ==
    /\ hist.before # <<>>
    /\ ~hist.before[1].isGameOver
    /\ Len(hist.before[1].notes) = 2
    /\ Len(StayingIn(hist.before[1].notes, canvas[1].height)) = 1

\* the moved note n overlaps the paddle rectangle of engine b
Overlaps(n, b, canvasHeight) ==
    /\ n.x < b.caracterX + CaracterWidth * Tenth
    /\ n.x + n.w > b.caracterX
    /\ n.y < canvasHeight * Tenth
    /\ n.y + n.h > (canvasHeight - CaracterHeight) * Tenth

\* the notes of engine b, moved, that overlap its paddle (hit) or that stay
\* in the canvas beside it
RECURSIVE MovedNotes(_, _, _, _)
MovedNotes(notes, b, canvasHeight, hit) ==
    IF notes = <<>> THEN <<>>
    ELSE LET n == NoteUpdate(Head(notes))
             rest == MovedNotes(Tail(notes), b, canvasHeight, hit)
         IN  IF ~isOut(n, canvasHeight) /\ (Overlaps(n, b, canvasHeight) <=> hit)
             THEN <<n>> \o rest
             ELSE rest

RECURSIVE EffectSum(_, _)
EffectSum(notes, field) ==
    IF notes = <<>> THEN 0
    ELSE EffectSum(Tail(notes), field)
         + (IF field = "score" THEN Head(notes).type.score
            ELSE Head(notes).type.lifeDelta)

\* C13: an updateNotes() pass that leaves the engine playing has applied the
\* catch effect of every note that overlaps the paddle after its move once
\* (an A: score + 100, lives + 0.25, above 3 too) and removed these notes;
\* the notes that stay in the canvas beside the paddle are live, moved, and
\* have changed neither score nor lives.
C13_CatchAppliedOnce ==
    (hist.before # <<>> /\ ~games[1].isGameOver) =>
        LET b == hist.before[1]
            hits == MovedNotes(b.notes, b, canvas[1].height, TRUE)
            misses == MovedNotes(b.notes, b, canvas[1].height, FALSE)
        IN  /\ games[1].score = b.score + EffectSum(hits, "score")
            /\ games[1].lives = b.lives + EffectSum(hits, "lives")
            /\ games[1].notes = misses
            /\ \A i \in DOMAIN hits : hits[i].type.name = "A" =>
                   /\ hits[i].type.score = 100
                   /\ hits[i].type.lifeDelta * 4 = Quarter

\* a pass has caught an A with three lives and left a note beside the paddle:
\* 3.25 lives
C13_Witness ==
    /\ hist.before # <<>>
    /\ hist.before[1].lives = InitialLives * Quarter
    /\ games[1].lives = InitialLives * Quarter + 1
    /\ games[1].score = hist.before[1].score + 100
    /\ Len(hist.before[1].notes) = 2
    /\ Len(games[1].notes) = 1

\* the weight of the first k entries of a registry
Cumulative(types, k) == SumWeights(types, k)

\* C14: over a registry of non-negative weights with a positive sum and a
\* draw r in [0, totalWeight), getRandomNoteType() returns the first entry
\* whose cumulative weight is above r, never one of weight 0, from inside
\* its single pass over the registry; the selection the engine spawns with
\* is the same.
C14_FirstAboveDraw ==
    LET p == hist.pick
        total == SumWeights(p.types, Len(p.types))
    IN  /\ p.i <= Len(p.types) + 1
        /\ ((\A k \in DOMAIN p.types : p.types[k].weight >= 0)
             /\ total > 0 /\ p.pc # "loop") =>
               /\ p.i <= Len(p.types)
               /\ p.result = p.types[p.i]
               /\ Cumulative(p.types, p.i) > p.r
               /\ \A j \in 1..(p.i - 1) : Cumulative(p.types, j) <= p.r
               /\ p.result.weight > 0
               /\ p.result = PickFrom(p.types, p.r, 1, 0)

\* the draw is the weight of the first entry, the second weighs nothing: the
\* third entry is returned
C14_Witness ==
    /\ hist.pick.pc = "returned"
    /\ Len(hist.pick.types) = 3
    /\ hist.pick.types[1].weight > 0
    /\ hist.pick.types[2].weight = 0
    /\ hist.pick.r = hist.pick.types[1].weight
    /\ hist.pick.result = hist.pick.types[3]

\* C15: over a registry that is empty or whose weights sum to zero or less,
\* getRandomNoteType() returns, what it returns is the last entry of the
\* registry, and the frame that spawns and draws the note does not raise.
C15_DegenerateFallback ==
    LET p == hist.pick
        total == SumWeights(p.types, Len(p.types))
    IN  /\ p.i <= Len(p.types) + 1
        /\ (total <= 0 /\ p.pc # "loop") =>
               /\ p.types # <<>> => p.result = p.types[Len(p.types)]
               /\ ~p.raised

\* C16: the note spawnNote() has just added at difficulty level D >= 1 has
\* a fall speed 2 + D/10 + random * D for a draw in [0, 1), so within
\* [2 + D/10, 2 + D/10 + D]; its y is minus its height and its x is within
\* [0, canvas width - note width].
C16_SpawnedNoteInRange ==
    hist.before # <<>> =>
        LET D == hist.before[1].difficultyLevel
            n == games[1].notes[Len(games[1].notes)]
        IN  /\ D >= 1
            /\ Len(games[1].notes) = Len(hist.before[1].notes) + 1
            /\ \E random \in RandomDraws : n.dy = 2 * Tenth + D + random * D
            /\ n.dy >= 2 * Tenth + D
            /\ n.dy <= 2 * Tenth + D + Tenth * D
            /\ n.y = -(NoteHeight * Tenth)
            /\ n.x >= 0
            /\ n.x <= (canvas[1].width - NoteWidth) * Tenth

\* a note spawned at the top level with the highest draws, in the narrow
\* canvas of a two-player run
C16_Witness ==
    /\ hist.before # <<>>
    /\ hist.before[1].difficultyLevel = MaxDifficulty
    /\ canvas[1].width = TwoPlayerWidth
    /\ \E i \in DOMAIN games[1].notes :
          /\ games[1].notes[i].dy = 2 * Tenth + MaxDifficulty + 9 * MaxDifficulty
          /\ games[1].notes[i].x = 9 * (TwoPlayerWidth - NoteWidth)

C18_StartScreenFrameIdle ==
    (hist.before # <<>>
     /\ ~hist.before[1].gameStarted /\ ~hist.before[1].isGameOver) =>
        /\ games[1] = hist.before[1]
        /\ ~hist.frame.spawned
        /\ games[1].rafPending = 1
        /\ games[1].notes = <<>>

\* a frame ran on the start screen with the least draw, which spawns a note
\* in a run
C18_Witness ==
    /\ hist.before # <<>>
    /\ ~hist.before[1].gameStarted
    /\ ~games[1].gameStarted
    /\ hist.frame.r = 0
    /\ preview

\* C19: an engine whose game-over transition has run in the current run has
\* drawn the game-over overlay in a frame of that run.
C19_OverlayBeforeTransition ==
    \A e \in Engines :
        games[e].transitions > 0 => games[e].gameOverAlreadyHandled

\* C20: the paddle of an engine lies within its canvas:
\* 0 <= caracterX <= canvas width - caracterWidth.
C20_PaddleInCanvas ==
    \A e \in Engines :
        /\ games[e].caracterX >= 0
        /\ games[e].caracterX <= (canvas[e].width - CaracterWidth) * Tenth

\* C21: updatePlayer() called on an engine that is game over leaves the
\* paddle and the direction token as they were, whatever keys are held.
C21_PaddleFrozen ==
    (hist.before # <<>> /\ hist.before[1].isGameOver) =>
        /\ games[1].caracterX = hist.before[1].caracterX
        /\ games[1].directionToken = hist.before[1].directionToken
        /\ games[1] = hist.before[1]

\* updatePlayer() has run on an engine that is game over, with the right key
\* held, the paddle left of its right bound and the right having priority
C21_Witness ==
    /\ hist.before # <<>>
    /\ hist.before[1].isGameOver
    /\ hist.before[1].rightPressed
    /\ hist.before[1].directionToken
    /\ hist.before[1].caracterX < (canvas[1].width - CaracterWidth) * Tenth

\* both keys held, the engine playing, the paddle strictly inside its bounds
BothHeldInside(g) ==
    /\ g.rightPressed
    /\ g.leftPressed
    /\ ~g.isGameOver
    /\ g.caracterX > 0
    /\ g.caracterX < (canvas[1].width - CaracterWidth) * Tenth

\* C22: with both keys held and the paddle strictly inside its bounds, a
\* tick moves the paddle one step, to the right or to the left by the
\* direction token, and flips the token; two such ticks in a row move it in
\* opposite directions and bring it back where it was.
C22_DirectionsAlternate ==
    /\ (hist.before # <<>> /\ BothHeldInside(hist.before[1])) =>
           /\ games[1].caracterX =
                  hist.before[1].caracterX
                  + (IF hist.before[1].directionToken THEN PaddleStep * Tenth
                     ELSE -(PaddleStep * Tenth))
           /\ games[1].directionToken = ~hist.before[1].directionToken
    /\ (Len(hist.before) = 2 /\ BothHeldInside(hist.before[1])
        /\ BothHeldInside(hist.before[2])) =>
           /\ games[1].caracterX = hist.before[2].caracterX
           /\ hist.before[1].caracterX # hist.before[2].caracterX

\* two ticks in a row with both keys held: right, then left, back to the
\* centre
C22_Witness ==
    /\ Len(hist.before) = 2
    /\ BothHeldInside(hist.before[1])
    /\ BothHeldInside(hist.before[2])
    /\ hist.before[1].caracterX = hist.before[2].caracterX + PaddleStep * Tenth
    /\ games[1].caracterX = Centre(1)

\* C23: the persisted highscore list holds at most HIGHSCORE_LIMIT entries.
C23_HighscoresCapped == Len(storage.highscores) <= HIGHSCORE_LIMIT

\* C24: startDifficultyRamp() and stopDifficultyRamp() are idempotent.  A
\* start on an engine that holds a ticker leaves the engine and the timers of
\* the page as they were, that ticker still the one the engine holds; a stop
\* on an engine that holds none leaves them as they were; and from every
\* state two calls in a row give what one call gives.
C24_RampIdempotent ==
    /\ hist.before # <<>> =>
          LET c == hist.before[1]
          IN  /\ (c.call = "start" /\ c.game.difficultyIntervalId # NullId) =>
                    /\ c.gameAfter = c.game
                    /\ c.timersAfter = c.timers
              /\ (c.call = "stop" /\ c.game.difficultyIntervalId = NullId) =>
                    /\ c.gameAfter = c.game
                    /\ c.timersAfter = c.timers
              /\ c.call = "start" =>
                    Cardinality({t \in c.timersAfter :
                                    /\ t.id = c.gameAfter.difficultyIntervalId
                                    /\ t.kind = "interval"
                                    /\ t.owner = c.engine}) = 1
              /\ c.call = "stop" =>
                    /\ c.gameAfter.difficultyIntervalId = NullId
                    /\ \A t \in c.timersAfter :
                          t.id # c.game.difficultyIntervalId
    /\ \A e \in Engines :
          /\ startDifficultyRamp(startDifficultyRamp(World, e), e)
                = startDifficultyRamp(World, e)
          /\ stopDifficultyRamp(stopDifficultyRamp(World, e), e)
                = stopDifficultyRamp(World, e)

\* a stop on an engine that holds no ticker has just returned, after a start
\* on an engine that held one
C24_Witness ==
    /\ hist.before # <<>>
    /\ hist.before[1].call = "stop"
    /\ hist.before[1].game.difficultyIntervalId = NullId
    /\ hist.before[1].idle = {"start", "stop"}

\* the strictly increasing maps from the positions of one list into those of
\* another
Embeddings(m, n) ==
    {f \in [1..m -> 1..n] : \A i \in 1..m : \A j \in 1..m : i < j => f[i] < f[j]}

\* C25: the fall speed of a note is fixed at its spawn.  A difficulty tick
\* leaves the live notes as they are; an updateNotes() pass leaves, of the
\* notes that were live, a part in the same order, each with the type, width,
\* height, x and dy it had and its y raised by exactly that dy.
C25_FallSpeedFixed ==
    hist.before # <<>> =>
        LET b == hist.before[1]
            g == games[1]
        IN  IF g.difficultyLevel # b.difficultyLevel
            THEN g.notes = b.notes
            ELSE \E f \in Embeddings(Len(g.notes), Len(b.notes)) :
                    \A i \in DOMAIN g.notes :
                       /\ g.notes[i].type = b.notes[f[i]].type
                       /\ g.notes[i].w = b.notes[f[i]].w
                       /\ g.notes[i].h = b.notes[f[i]].h
                       /\ g.notes[i].x = b.notes[f[i]].x
                       /\ g.notes[i].dy = b.notes[f[i]].dy
                       /\ g.notes[i].y = b.notes[f[i]].y + b.notes[f[i]].dy

\* a pass has just moved two notes of different speeds, spawned at different
\* levels, at a level above both
C25_Witness ==
    /\ hist.before # <<>>
    /\ games[1].difficultyLevel = hist.before[1].difficultyLevel
    /\ Len(games[1].notes) = 2
    /\ games[1].notes[1].dy < games[1].notes[2].dy
    /\ games[1].notes[2].dy < 2 * Tenth + games[1].difficultyLevel
                                + 9 * games[1].difficultyLevel
    /\ games[1].notes[1].y > -(NoteHeight * Tenth)

TouchInHalf(touches, n, right) ==
    \E i \in 1..Len(touches) :
        /\ i <= n
        /\ (2 * touches[i] < canvas[1].width) <=> ~right

\* C27 as stated: after a touch start, move or end event the left intent is
\* true exactly when a touch of the event lies in the left half of the canvas
\* and the right intent exactly when one lies in the right half, for every list
\* of touches; after a touch cancel both intents are false.
C27_IntentsFollowEveryTouch ==
    hist.before # <<>> =>
        LET c == hist.before[1]
        IN  IF c.kind = "touchcancel"
            THEN ~games[1].leftPressed /\ ~games[1].rightPressed
            ELSE /\ games[1].leftPressed
                      <=> TouchInHalf(c.touches, Len(c.touches), FALSE)
                 /\ games[1].rightPressed
                      <=> TouchInHalf(c.touches, Len(c.touches), TRUE)

\* C27 amended: the intents follow the first two touches of the event, a
\* touch on the middle column counting as right; the touches after the second
\* are not read; after a touch cancel both intents are false; nothing else of
\* the engine changes.
C27_IntentsFollowFirstTwoTouches ==
    hist.before # <<>> =>
        LET c == hist.before[1]
        IN  /\ IF c.kind = "touchcancel"
               THEN ~games[1].leftPressed /\ ~games[1].rightPressed
               ELSE /\ games[1].leftPressed <=> TouchInHalf(c.touches, 2, FALSE)
                    /\ games[1].rightPressed <=> TouchInHalf(c.touches, 2, TRUE)
            /\ games[1] = [c.game EXCEPT !.leftPressed = games[1].leftPressed,
                                         !.rightPressed = games[1].rightPressed]

\* a touch event has carried two touches in the left half and a third in the
\* right half, with the right intent set before it
C27_Witness ==
    /\ hist.before # <<>>
    /\ hist.before[1].kind = "touchend"
    /\ hist.before[1].game.rightPressed
    /\ Len(hist.before[1].touches) = 3
    /\ TouchInHalf(hist.before[1].touches, 3, TRUE)
    /\ ~TouchInHalf(hist.before[1].touches, 2, TRUE)
    /\ ~games[1].rightPressed

\* C28: an updateNotes() pass moves every note that was live at its start
\* exactly once and tests it exactly once, whatever it removes.  The notes
\* it leaves are notes of the start, in their order, each moved by one dy,
\* none of them below the canvas and, the engine still playing, none on the
\* paddle; each note it removed is, moved by one dy, below the canvas or on
\* the paddle; and the score has risen by the score of the removed notes that
\* were on the paddle, each counted once.
C28_EachNoteOnce ==
    hist.before # <<>> =>
        LET b == hist.before[1]
            g == games[1]
            h == canvas[1].height
        IN  \E f \in Embeddings(Len(g.notes), Len(b.notes)) :
               LET gone == {i \in DOMAIN b.notes :
                               \A k \in DOMAIN g.notes : f[k] # i}
                   caught == {i \in gone : ~isOut(NoteUpdate(b.notes[i]), h)}
                   Score[S \in SUBSET caught] ==
                       IF S = {} THEN 0
                       ELSE LET i == CHOOSE j \in S : TRUE
                            IN  b.notes[i].type.score + Score[S \ {i}]
               IN  /\ \A k \in DOMAIN g.notes :
                         /\ g.notes[k] = NoteUpdate(b.notes[f[k]])
                         /\ ~isOut(g.notes[k], h)
                         /\ ~g.isGameOver => ~Overlaps(g.notes[k], b, h)
                   /\ \A i \in caught :
                         /\ Overlaps(NoteUpdate(b.notes[i]), b, h)
                         /\ ~b.isGameOver
                   /\ g.score = b.score + Score[caught]

\* a pass on a playing engine has removed the last of two notes, caught on
\* the paddle, and moved the first, which stays live
C28_Witness ==
    /\ hist.before # <<>>
    /\ ~games[1].isGameOver
    /\ Len(hist.before[1].notes) = 2
    /\ Overlaps(NoteUpdate(hist.before[1].notes[2]), hist.before[1],
                canvas[1].height)
    /\ games[1].notes = <<NoteUpdate(hist.before[1].notes[1])>>

\* C29: in two-player mode the banner of the results view shows the greater
\* of the two final scores, the scores handed over by the game-over
\* transition or read from session storage.
C29_BannerShowsMaximum ==
    (/\ hist.lastView.np = 2
     /\ storage.score["Player 1"] # Null
     /\ storage.score["Player 2"] # Null) =>
        LET one == ToNumber(storage.score["Player 1"])
            two == ToNumber(storage.score["Player 2"])
        IN  /\ hist.lastView.banner # Null
            /\ ToNumber(hist.lastView.banner) = IF one < two THEN two ELSE one

\* C30: at the end of a two-player run twoPlayersWinnerAlert announces exactly
\* one outcome for the two scores the game-over transition hands over: the
\* player with the strictly greater score as the winner, equality when the
\* scores are equal.
C30_OneOutcomeAnnounced ==
    (hist.lastView.np = 2 /\ hist.lastView.direct) =>
        LET mine == ToNumber(hist.lastView.thisScore)
            theirs == ToNumber(hist.lastView.friendScore)
        IN  hist.lastView.alert =
                IF mine > theirs THEN hist.lastView.thisUser
                ELSE IF mine < theirs THEN hist.lastView.friend
                ELSE "equality"

\* C31: once the results navigation of a run has been performed, no frame
\* callback of an engine of that run is pending until the next run begins.
C31_StoppedRunIdle ==
    (/\ hist.runs > 0
     /\ ~isGaming
     /\ hist.lastView.direct) =>
        \A e \in Engines :
            (e = 1 \/ hist.runPlayers = 2) => games[e].rafPending = 0

\* C32: an engine has at most one frame callback pending at every moment,
\* after its first start(), after a later start() and after restart(); and
\* as long as an engine has only been started with a truthy preview it is
\* NotStarted and has no difficulty ticker.
C32_OneFrameChain ==
    /\ \A e \in Engines : games[e].rafPending <= 1
    /\ \A e \in Engines :
          (hist.runs = 0 \/ (e = 2 /\ hist.runs = 1 /\ hist.runPlayers = 1)) =>
              /\ games[e].previewed
              /\ ~games[e].gameStarted
              /\ ~games[e].isGameOver
              /\ games[e].difficultyIntervalId = NullId
              /\ TickersOf(e) = {}

\* engine 1 has been started for the preview, started again for a run and
\* restarted for a second run, and has its one frame callback pending
C32_Witness ==
    /\ hist.runs = 2
    /\ games[1].gameStarted
    /\ games[1].rafPending = 1
    /\ TickersOf(1) # {}

\* C33: an engine whose lifecycle is Playing has its keyboard and touch
\* listeners attached, whether start(false) or restart() made it Playing.
C33_PlayingEngineHasInput ==
    \A e \in Engines :
        (games[e].gameStarted /\ ~games[e].isGameOver) => games[e].inputAttached

\* C34: the score handed to the results navigation of a player is the score
\* persisted for that player when its game-over transition ran, the
\* transition made at the loss of the last life or forced by the highscores
\* request.
C34_HandedScoreIsPersisted ==
    hist.lastView.direct =>
        /\ storage.score[hist.lastView.thisUser] # Null
        /\ ToNumber(hist.lastView.thisScore)
             = ToNumber(storage.score[hist.lastView.thisUser])

\* C35: a game-over transition is performed only by an engine that takes
\* part in the run in progress; once the results view is shown no further
\* navigation is scheduled, and twoPlayersWinnerAlert is not called for a
\* run of one player, whatever was toggled since.
C35_TransitionOnlyInRun ==
    /\ \A e \in Engines :
          games[e].transitions > 0 => (e = 1 \/ hist.runPlayers = 2)
    /\ (hist.runs > 0 /\ ~isGaming) =>
          \A t \in timers : t.kind # "timeout"
    /\ hist.runPlayers = 1 => ~(hist.lastView.np = 2 /\ hist.lastView.direct)

\* C36: a frame that begins with the lifecycle GameOver spawns no note; the
\* notes live at game over fall by at least MinDy a frame and are pruned
\* below the canvas, so that after DrainFrames such frames no note is live,
\* and none is until restart().
C36_NotesDrainAfterGameOver ==
    hist.before # <<>> =>
        LET c == hist.before[1]
        IN  /\ c.wasOver => Len(games[1].notes) <= c.notes
            /\ c.over >= DrainFrames => games[1].notes = <<>>
            /\ \A i \in DOMAIN games[1].notes : games[1].notes[i].dy >= MinDy

\* a note that was live when the engine became game over has just left the
\* canvas, in the last frame but one of the bound, and none is live
C36_Witness ==
    /\ hist.before # <<>>
    /\ hist.before[1].over = DrainFrames - 1
    /\ hist.before[1].notes = 1
    /\ games[1].isGameOver
    /\ games[1].notes = <<>>

\* the handshake flag holds one of the two strings increment_game_state()
\* answers to, and no engine is in a state where its gameOver() would raise
FlagWritten ==
    /\ storage.game_state_boolean \in {"false", "true"}
    /\ \A e \in Engines : ~gameOverThrows(World, e)

\* C37: from the boot of the page on the handshake flag holds "true" or
\* "false", so that gameOver() gets a result from increment_game_state()
\* whenever it runs and raises in no state; and the step that begins a run
\* leaves the flag "false".
C37_FlagAlwaysWritten ==
    [][/\ FlagWritten
       /\ FlagWritten'
       /\ hist'.runs > hist.runs => storage'.game_state_boolean = "false"]_vars

\* in a second run, begun by restart(), the transition of engine 1 has read
\* the flag and set it
C37_Witness ==
    /\ hist.runs = 2
    /\ games[1].transitions = 1
    /\ storage.game_state_boolean = "true"

\* a run has begun and no engine that takes part in it has done its
\* game-over transition yet, so that no navigation of this run is scheduled
RunInProgress ==
    /\ hist.runs > 0
    /\ \A e \in Engines :
          (e = 1 \/ hist.runPlayers = 2) =>
              /\ games[e].gameStarted
              /\ ~games[e].isGameOver
              /\ ~games[e].dead

\* C38: while a run is in progress the keyboard menu actions are switched
\* off (isPlaying is true) and the start/restart intent, from whatever
\* control it comes, begins no run: it calls neither start() nor restart().
C38_NoRestartDuringRun ==
    RunInProgress =>
        /\ isPlaying
        /\ wantToStartHandler(World).hist.runs = hist.runs

====
